---- MODULE Spec2Model ----
(***************************************************************************)
(* condor_watch_q: the job state tracker, the aggregation and rendering    *)
(* helpers and the poll loop of watch_q (src/condor_watch_q.py).            *)
(***************************************************************************)
EXTENDS Integers, Sequences, FiniteSets, TLC

VARIABLES
    pc,                     \* position of watch_q: start, process, erase, emit, print, check, sleep, done
    event_logs,             \* set of event log paths returned by find_job_event_logs
    openable,               \* the event logs htcondor.JobEventLog can open
    batch_names,            \* cluster id -> JobBatchName (None when the ad has none)
    exit_conditions,        \* sequence of <<grouper, checker, exit_status>>
    key,                    \* GROUPBY_ATTRIBUTE_TO_AD_KEY[group_by]
    refresh,                \* watch_q: the refresh option
    row_progress_bar,       \* watch_q: the row_progress_bar option
    color,                  \* watch_q: the color option
    dag,                    \* watch_q: the dag option
    dagman_clusters_to_path, \* [cluster_id, path] of the ads with a DAGManNodesLog, in insertion order
    home_dir,               \* environment: os.path.expanduser("~"), as path components
    cwd,                    \* environment: os.getcwd(), as path components
    event_readers,          \* JobStateTracker.event_readers, in iteration order
    warnings,               \* event log path -> warnings of JobStateTracker.__init__ about it
    cluster_id_to_cluster,  \* JobStateTracker.cluster_id_to_cluster, in insertion order
    reader_idx,             \* process_events: index of the reader being drained
    messages,               \* process_events: number of diagnostics collected in this tick
    totals,                 \* watch_q: totals of the last aggregation
    headers,                \* watch_q: headers returned by strip_empty_columns
    stripped,               \* watch_q: rows_by_key returned by strip_empty_columns
    rows,                   \* watch_q: the sorted rows handed to make_table
    terminal_columns,       \* watch_q: columns of get_terminal_size() in this tick
    bar,                    \* make_progress_bar: bar_section_lengths
    strip,                  \* make_summary_with_totals: the prefix length of the labels
    summary,                \* the summary line
    table,                  \* the lines returned by make_table
    msg_lines,              \* watch_q: number of lines of msg, 0 while msg is None
    move,                   \* watch_q: number of lines move goes up, 0 while move is None
    written,                \* output of this tick, in order: <<stream, what, number of lines>>
    exit_status,            \* <<status>> of sys.exit(status), <<>> while running
    announced,              \* <<grouper, checker>> of the "Exiting with code" line, or <<>>
    feed,                   \* environment: what the event logs hold (any event, or a script)
    referenced,             \* history: every (cluster, proc) an event read so far referred to
    last_mapped,            \* history: per job, the table status of the last mapped event read
    last_source             \* history: per cluster id, the event log of the last mapped event read

config == <<event_logs, openable, batch_names, exit_conditions, key, refresh,
           row_progress_bar, color, dag, dagman_clusters_to_path, home_dir, cwd>>
tracker == <<event_readers, cluster_id_to_cluster>>
locals == <<reader_idx, messages>>
rendered == <<totals, headers, stripped, rows, terminal_columns, bar, strip, summary,
             table>>
screen == <<msg_lines, move, written>>
history == <<referenced, last_mapped, last_source>>
vars == <<pc, config, tracker, warnings, locals, rendered, screen, exit_status, announced,
          feed, history>>

None == "None"

----------------------------------------------------------------------------
(* Bounds of the model *)

\* cluster ids the event logs may mention
ClusterIds == {2, 10}
\* (cluster, proc) pairs the event logs may mention
JobIds == {<<2, 0>>, <<2, 1>>, <<10, 0>>}
\* event log paths, as the components of the absolute path
LogPaths == {<<"home", "u", "w", "a.log">>, <<"tmp", "b.log">>}
\* os.path.expanduser("~") and os.getcwd() in the runs of the poll loop
HomeDir == <<"home", "u">>
CurrentDir == <<"home", "u", "w">>
\* most parse failures collected in one call of process_events
MaxMessages == 1
\* JobBatchName of the clusters, as find_job_event_logs collects them
NoBatchNames == [c \in ClusterIds |-> None]
BatchNameHints == {NoBatchNames,
                   [c \in ClusterIds |-> "sweep"],
                   [c \in ClusterIds |-> IF c = 2 THEN "z" ELSE "a"]}
\* the -exit options of a run: none, each single condition, and two lists
ExitCodeOf(grouper) == IF grouper = "all" THEN 0 ELSE IF grouper = "any" THEN 1 ELSE 2
ExitConditionLists ==
    {<<>>} \cup
    {<<<<g, c, ExitCodeOf(g)>>>> : g \in {"all", "any", "none"},
                                   c \in {"active", "done", "idle", "held"}} \cup
    {<<<<"all", "done", 0>>, <<"any", "held", 1>>>>,
     <<<<"any", "idle", 3>>, <<"any", "active", 4>>, <<"none", "held", 5>>>>}
\* columns get_terminal_size() reports in the poll loop
TerminalColumns == {80}
\* most jobs of one status in the totals handed to make_progress_bar alone
MaxCount == 3
\* terminal widths handed to make_progress_bar alone
BarColumns == {1, 2, 57, 79, 120}
\* job counts of one status in the totals handed to the summary functions alone
SummaryCounts == {0, 1, 1000}
\* terminal widths handed to the summary functions alone
SummaryColumns == {20, 45, 70, 85, 95, 120}

----------------------------------------------------------------------------
(* Constants of the program *)

JobStatus == {"REMOVED", "HELD", "IDLE", "RUNNING", "COMPLETED",
              "TRANSFERRING_OUTPUT", "SUSPENDED"}

ordered == <<"REMOVED", "HELD", "SUSPENDED", "IDLE", "RUNNING",
             "TRANSFERRING_OUTPUT", "COMPLETED">>

ACTIVE_STATES == {"IDLE", "RUNNING", "TRANSFERRING_OUTPUT", "HELD", "SUSPENDED"}

TOTAL == "TOTAL"
ACTIVE_JOBS == "JOB_IDS"
EVENT_LOG == "LOG"
CLUSTER_ID == "CLUSTER"
BATCH_NAME == "BATCH"

ALWAYS_INCLUDE == {"IDLE", "RUNNING", "COMPLETED", EVENT_LOG, TOTAL}

HEADERS == ordered \o <<TOTAL, ACTIVE_JOBS>>

\* the event kinds of htcondor.JobEventType that have an entry in the table
MappedEventTypes == {"SUBMIT", "JOB_EVICTED", "JOB_UNSUSPENDED", "JOB_RELEASED",
                     "SHADOW_EXCEPTION", "JOB_RECONNECT_FAILED", "JOB_TERMINATED",
                     "EXECUTE", "JOB_HELD", "JOB_SUSPENDED", "JOB_ABORTED"}

\* htcondor.JobEventType: the mapped kinds and two of the informational ones
JobEventType == MappedEventTypes \cup {"IMAGE_SIZE", "JOB_AD_INFORMATION"}

\* the table with the entry of JOB_RECONNECT_FAILED left out and the entries
\* of JOB_TERMINATED and JOB_ABORTED exchanged
JOB_EVENT_STATUS_TRANSITIONS_Slip(type) ==
    CASE type = "SUBMIT" -> "IDLE"
      [] type = "JOB_EVICTED" -> "IDLE"
      [] type = "JOB_UNSUSPENDED" -> "IDLE"
      [] type = "JOB_RELEASED" -> "IDLE"
      [] type = "SHADOW_EXCEPTION" -> "IDLE"
      [] type = "JOB_TERMINATED" -> "REMOVED"
      [] type = "EXECUTE" -> "RUNNING"
      [] type = "JOB_HELD" -> "HELD"
      [] type = "JOB_SUSPENDED" -> "SUSPENDED"
      [] type = "JOB_ABORTED" -> "COMPLETED"
      [] OTHER -> None

\* the table with JOB_EVICTED mapped to TRANSFERRING_OUTPUT
JOB_EVENT_STATUS_TRANSITIONS_Transfer(type) ==
    CASE type = "SUBMIT" -> "IDLE"
      [] type = "JOB_EVICTED" -> "TRANSFERRING_OUTPUT"
      [] type = "JOB_UNSUSPENDED" -> "IDLE"
      [] type = "JOB_RELEASED" -> "IDLE"
      [] type = "SHADOW_EXCEPTION" -> "IDLE"
      [] type = "JOB_RECONNECT_FAILED" -> "IDLE"
      [] type = "JOB_TERMINATED" -> "COMPLETED"
      [] type = "EXECUTE" -> "RUNNING"
      [] type = "JOB_HELD" -> "HELD"
      [] type = "JOB_SUSPENDED" -> "SUSPENDED"
      [] type = "JOB_ABORTED" -> "REMOVED"
      [] OTHER -> None

\* JOB_EVENT_STATUS_TRANSITIONS.get(type, None)
JOB_EVENT_STATUS_TRANSITIONS(type) ==
    CASE type = "SUBMIT" -> "IDLE"
      [] type = "JOB_EVICTED" -> "IDLE"
      [] type = "JOB_UNSUSPENDED" -> "IDLE"
      [] type = "JOB_RELEASED" -> "IDLE"
      [] type = "SHADOW_EXCEPTION" -> "IDLE"
      [] type = "JOB_RECONNECT_FAILED" -> "IDLE"
      [] type = "JOB_TERMINATED" -> "COMPLETED"
      [] type = "EXECUTE" -> "RUNNING"
      [] type = "JOB_HELD" -> "HELD"
      [] type = "JOB_SUSPENDED" -> "SUSPENDED"
      [] type = "JOB_ABORTED" -> "REMOVED"
      [] OTHER -> None

EXIT_GROUPER_NAMES == {"all", "any", "none"}

\* the checks with "held" testing for SUSPENDED
EXIT_JOB_STATUS_CHECK_Suspended(checker, s) ==
    CASE checker = "active" -> s \in ACTIVE_STATES
      [] checker = "done" -> s = "COMPLETED"
      [] checker = "idle" -> s = "IDLE"
      [] checker = "held" -> s = "SUSPENDED"

\* EXIT_JOB_STATUS_CHECK[checker](s)
EXIT_JOB_STATUS_CHECK(checker, s) ==
    CASE checker = "active" -> s \in ACTIVE_STATES
      [] checker = "done" -> s = "COMPLETED"
      [] checker = "idle" -> s = "IDLE"
      [] checker = "held" -> s = "HELD"

\* the groupers with "none" written as not all
EXIT_GROUPERS_NotAll(grouper, bools) ==
    CASE grouper = "all" -> \A i \in 1..Len(bools) : bools[i]
      [] grouper = "any" -> \E i \in 1..Len(bools) : bools[i]
      [] grouper = "none" -> ~(\A i \in 1..Len(bools) : bools[i])

\* EXIT_GROUPERS[grouper](bools), bools being a sequence of booleans
EXIT_GROUPERS(grouper, bools) ==
    CASE grouper = "all" -> \A i \in 1..Len(bools) : bools[i]
      [] grouper = "any" -> \E i \in 1..Len(bools) : bools[i]
      [] grouper = "none" -> ~(\E i \in 1..Len(bools) : bools[i])

----------------------------------------------------------------------------
(* Cluster and JobStateTracker *)

\* the events a reader can yield
Events == [type : JobEventType, cluster : ClusterIds, proc : {0, 1}]

LogEvents == {e \in Events : <<e.cluster, e.proc>> \in JobIds}

\* Cluster.__init__
Cluster(cluster_id, event_log_path, batch_name) ==
    [cluster_id |-> cluster_id, event_log_path |-> event_log_path,
     batch_name |-> batch_name, job_to_state |-> <<>>]

\* Cluster.__setitem__
ClusterSetItem(cluster, proc, value) ==
    [cluster EXCEPT !.job_to_state =
        [p \in DOMAIN cluster.job_to_state \cup {proc} |->
            IF p = proc THEN value ELSE cluster.job_to_state[p]]]

\* position of cluster_id among the keys of cluster_id_to_cluster, 0 when absent
ClusterIndex(clusters, cluster_id) ==
    IF \E i \in 1..Len(clusters) : clusters[i].cluster_id = cluster_id
    THEN CHOOSE i \in 1..Len(clusters) : clusters[i].cluster_id = cluster_id
    ELSE 0

\* ApplyEvent with the cluster stored by assignment instead of setdefault: a
\* cluster seen before is replaced by a fresh one
ApplyEvent_Assign(clusters, names, event_log_path, ev) ==
    LET new_status == JOB_EVENT_STATUS_TRANSITIONS(ev.type)
        i == ClusterIndex(clusters, ev.cluster)
        fresh == ClusterSetItem(Cluster(ev.cluster, event_log_path, names[ev.cluster]),
                                ev.proc, new_status)
    IN  IF new_status = None THEN clusters
        ELSE IF i = 0 THEN Append(clusters, fresh)
        ELSE [clusters EXCEPT ![i] = fresh]

\* ApplyEvent with transition validation: a COMPLETED or REMOVED job keeps
\* its status
ApplyEvent_Validating(clusters, names, event_log_path, ev) ==
    LET new_status == JOB_EVENT_STATUS_TRANSITIONS(ev.type)
        i == ClusterIndex(clusters, ev.cluster)
        withCluster == IF i = 0
                       THEN Append(clusters,
                                   Cluster(ev.cluster, event_log_path, names[ev.cluster]))
                       ELSE clusters
        j == IF i = 0 THEN Len(withCluster) ELSE i
        final == /\ ev.proc \in DOMAIN withCluster[j].job_to_state
                 /\ withCluster[j].job_to_state[ev.proc] \in {"COMPLETED", "REMOVED"}
    IN  IF new_status = None \/ final
        THEN clusters
        ELSE [withCluster EXCEPT ![j] = ClusterSetItem(withCluster[j], ev.proc, new_status)]

\* ApplyEvent with JOB_ABORTED deleting the job instead of marking it REMOVED
ApplyEvent_Forget(clusters, names, event_log_path, ev) ==
    LET new_status == JOB_EVENT_STATUS_TRANSITIONS(ev.type)
        i == ClusterIndex(clusters, ev.cluster)
        withCluster == IF i = 0
                       THEN Append(clusters,
                                   Cluster(ev.cluster, event_log_path, names[ev.cluster]))
                       ELSE clusters
        j == IF i = 0 THEN Len(withCluster) ELSE i
    IN  IF new_status = None THEN clusters
        ELSE IF ev.type = "JOB_ABORTED"
        THEN [withCluster EXCEPT ![j].job_to_state =
                 [p \in DOMAIN @ \ {ev.proc} |-> @[p]]]
        ELSE [withCluster EXCEPT ![j] = ClusterSetItem(withCluster[j], ev.proc, new_status)]

\* ApplyEvent with the cluster looked up or created before the kind of the
\* event is looked at
ApplyEvent_CreateFirst(clusters, names, event_log_path, ev) ==
    LET new_status == JOB_EVENT_STATUS_TRANSITIONS(ev.type)
        i == ClusterIndex(clusters, ev.cluster)
        withCluster == IF i = 0
                       THEN Append(clusters,
                                   Cluster(ev.cluster, event_log_path, names[ev.cluster]))
                       ELSE clusters
        j == IF i = 0 THEN Len(withCluster) ELSE i
    IN  IF new_status = None THEN withCluster
        ELSE [withCluster EXCEPT ![j] = ClusterSetItem(withCluster[j], ev.proc, new_status)]

\* ApplyEvent with the cluster appended on every event instead of looked up
ApplyEvent_Append(clusters, names, event_log_path, ev) ==
    LET new_status == JOB_EVENT_STATUS_TRANSITIONS(ev.type)
    IN  IF new_status = None THEN clusters
        ELSE Append(clusters,
                    ClusterSetItem(Cluster(ev.cluster, event_log_path, names[ev.cluster]),
                                   ev.proc, new_status))

\* the body of the loop of process_events after a successful next(events)
ApplyEvent(clusters, names, event_log_path, ev) ==
    LET new_status == JOB_EVENT_STATUS_TRANSITIONS(ev.type)
        i == ClusterIndex(clusters, ev.cluster)
        \* cluster_id_to_cluster.setdefault(event.cluster, Cluster(...))
        withCluster == IF i = 0
                       THEN Append(clusters,
                                   Cluster(ev.cluster, event_log_path, names[ev.cluster]))
                       ELSE clusters
        j == IF i = 0 THEN Len(withCluster) ELSE i
    IN  IF new_status = None
        THEN clusters
        ELSE [withCluster EXCEPT ![j] = ClusterSetItem(withCluster[j], ev.proc, new_status)]

\* concatenation of the sequences of a sequence
RECURSIVE Flatten(_)
Flatten(seqs) ==
    IF seqs = <<>> THEN <<>> ELSE Head(seqs) \o Flatten(Tail(seqs))

\* the entries of a dict with integer keys as a sequence (ascending keys)
RECURSIVE DictValues(_)
DictValues(f) ==
    IF DOMAIN f = {} THEN <<>>
    ELSE LET p == CHOOSE q \in DOMAIN f : \A r \in DOMAIN f : q <= r
         IN  <<f[p]>> \o DictValues([r \in DOMAIN f \ {p} |-> f[r]])

\* JobStateTracker.job_states
job_states(clusters) ==
    Flatten([i \in 1..Len(clusters) |-> DictValues(clusters[i].job_to_state)])

\* the (cluster, proc) pairs the tracker holds
TrackedJobs(clusters) ==
    UNION {{<<clusters[i].cluster_id, p>> : p \in DOMAIN clusters[i].job_to_state} :
        i \in 1..Len(clusters)}

----------------------------------------------------------------------------
(* Paths *)

\* len() of one path component
ComponentLen(c) == Len(c)

\* len() of the components joined with "/"
RECURSIVE JoinedLen(_)
JoinedLen(comps) ==
    IF comps = <<>> THEN 0
    ELSE IF Len(comps) = 1 THEN ComponentLen(comps[1])
    ELSE ComponentLen(comps[1]) + 1 + JoinedLen(Tail(comps))

\* length of the longest common prefix of two component sequences
RECURSIVE CommonLen(_, _)
CommonLen(p, q) ==
    IF p = <<>> \/ q = <<>> \/ Head(p) # Head(q) THEN 0
    ELSE 1 + CommonLen(Tail(p), Tail(q))

\* os.path.relpath(path, start) for absolute component sequences
relpath(path, start) ==
    LET k == CommonLen(path, start)
        rel == [i \in 1..(Len(start) - k) |-> ".."] \o SubSeq(path, k + 1, Len(path))
    IN  IF rel = <<>> THEN <<".">> ELSE rel

\* the candidates of nice_path, in the order they are appended; an absolute
\* path is written with an empty first component
possibilities(path) ==
    LET relative_to_user_home == relpath(path, home_dir)
        relative_to_cwd == relpath(path, cwd)
    IN  <<(<<"">> \o path), (<<"~">> \o relative_to_user_home)>> \o
        (IF ~(Len(relative_to_cwd) > 1 /\ relative_to_cwd[1] = "..")
         THEN <<(<<".">> \o relative_to_cwd)>> ELSE <<>>)

\* MinByLen with the last element of least length returned
MinByLen_Last(collection) ==
    LET i == CHOOSE n \in 1..Len(collection) :
                /\ \A m \in 1..Len(collection) :
                      JoinedLen(collection[n]) <= JoinedLen(collection[m])
                /\ \A m \in (n + 1)..Len(collection) :
                      JoinedLen(collection[m]) > JoinedLen(collection[n])
    IN  collection[i]

\* min(collection, key=len): the first element of least length
MinByLen(collection) ==
    LET i == CHOOSE n \in 1..Len(collection) :
                /\ \A m \in 1..Len(collection) :
                      JoinedLen(collection[n]) <= JoinedLen(collection[m])
                /\ \A m \in 1..(n - 1) :
                      JoinedLen(collection[m]) > JoinedLen(collection[n])
    IN  collection[i]

nice_path(path) == MinByLen(possibilities(path))

----------------------------------------------------------------------------
(* Aggregation *)

\* Cluster.batch_name
batch_name(cluster) ==
    IF cluster.batch_name = None \/ cluster.batch_name = ""
    THEN "ID: " \o ToString(cluster.cluster_id)
    ELSE cluster.batch_name

\* operator.attrgetter(GROUPBY_AD_KEY_TO_ATTRIBUTE[key])
getter(k, cluster) ==
    CASE k = EVENT_LOG -> cluster.event_log_path
      [] k = CLUSTER_ID -> cluster.cluster_id
      [] k = BATCH_NAME -> batch_name(cluster)

\* GroupAppend with the list of the group assigned instead of appended to:
\* groups[value] = [cluster]
GroupAppend_Assign(groups, value, cluster) ==
    IF \E i \in 1..Len(groups) : groups[i].value = value
    THEN LET i == CHOOSE n \in 1..Len(groups) : groups[n].value = value
         IN  [groups EXCEPT ![i].clusters = <<cluster>>]
    ELSE Append(groups, [value |-> value, clusters |-> <<cluster>>])

\* groups[value].append(cluster) on a defaultdict(list) kept in insertion order
GroupAppend(groups, value, cluster) ==
    IF \E i \in 1..Len(groups) : groups[i].value = value
    THEN LET i == CHOOSE n \in 1..Len(groups) : groups[n].value = value
         IN  [groups EXCEPT ![i].clusters = Append(@, cluster)]
    ELSE Append(groups, [value |-> value, clusters |-> <<cluster>>])

RECURSIVE GroupLoop(_, _, _)
GroupLoop(groups, clusters, k) ==
    IF clusters = <<>> THEN groups
    ELSE GroupLoop(GroupAppend(groups, getter(k, Head(clusters)), Head(clusters)),
                   Tail(clusters), k)

group_clusters_by_key(clusters, k) == GroupLoop(<<>>, clusters, k)

\* dagman_path_to_clusters[path] of group_jobs_by_dag: the reversed dictionary
\* keeps, for a path, the cluster id inserted last
dagman_path_to_clusters(dagman, path) ==
    LET last == CHOOSE i \in 1..Len(dagman) :
                    /\ dagman[i].path = path
                    /\ \A j \in (i + 1)..Len(dagman) : dagman[j].path # path
    IN  dagman[last].cluster_id

\* the loop of group_jobs_by_dag: a cluster is grouped only when its event log
\* is the DAGManNodesLog of an ad, under the batch name of that ad's cluster
RECURSIVE DagLoop(_, _, _, _)
DagLoop(groups, clusters, dagman, names) ==
    IF clusters = <<>> THEN groups
    ELSE LET cluster == Head(clusters)
             redirected == \E i \in 1..Len(dagman) : dagman[i].path = cluster.event_log_path
         IN  DagLoop(IF redirected
                     THEN GroupAppend(groups,
                                      names[dagman_path_to_clusters(dagman,
                                                                    cluster.event_log_path)],
                                      cluster)
                     ELSE groups,
                     Tail(clusters), dagman, names)

\* group_jobs_by_dag(clusters, key, dagman_clusters_to_path, batch_names); the
\* key is not used
group_jobs_by_dag(clusters, k, dagman, names) == DagLoop(<<>>, clusters, dagman, names)

\* the (cluster, proc) of the jobs of one cluster whose status is in ACTIVE_STATES
ActiveIdsOf(cluster) ==
    LET procs == {p \in DOMAIN cluster.job_to_state :
                     cluster.job_to_state[p] \in ACTIVE_STATES}
    IN  {<<cluster.cluster_id, p>> : p \in procs}

\* sum(f[x] for x in S)
RECURSIVE SumOver(_, _)
SumOver(f, S) ==
    IF S = {} THEN 0
    ELSE LET x == CHOOSE y \in S : TRUE IN f[x] + SumOver(f, S \ {x})

\* sum() of a sequence of integers
RECURSIVE SumSeq(_)
SumSeq(seq) == IF seq = <<>> THEN 0 ELSE Head(seq) + SumSeq(Tail(seq))

\* the decimal digits of str(n), n >= 0
RECURSIVE Digits(_)
Digits(n) == IF n < 10 THEN <<n>> ELSE Append(Digits(n \div 10), n % 10)

\* a < b for two strings of decimal digits
RECURSIVE StrLess(_, _)
StrLess(a, b) ==
    IF a = <<>> THEN b # <<>>
    ELSE IF b = <<>> THEN FALSE
    ELSE IF Head(a) # Head(b) THEN Head(a) < Head(b)
    ELSE StrLess(Tail(a), Tail(b))

\* jobid.split(".") of one id before that of another: lists of strings compare
\* item by item
SplitKeyLess(x, y) ==
    \/ StrLess(Digits(x[1]), Digits(y[1]))
    \/ x[1] = y[1] /\ StrLess(Digits(x[2]), Digits(y[2]))

\* active_job_ids.sort(key=lambda jobid: jobid.split(".")), the ids being distinct
RECURSIVE SortedJobIds(_)
SortedJobIds(ids) ==
    IF ids = {} THEN <<>>
    ELSE LET first == CHOOSE x \in ids : \A y \in ids \ {x} : SplitKeyLess(x, y)
         IN  <<first>> \o SortedJobIds(ids \ {first})

\* "{}.{}".format(cluster.cluster_id, proc_id)
JobIdString(id) == ToString(id[1]) \o "." \o ToString(id[2])

\* sep.join(ids)
RECURSIVE Join(_, _)
Join(sep, strings) ==
    IF strings = <<>> THEN ""
    ELSE IF Len(strings) = 1 THEN Head(strings)
    ELSE Head(strings) \o sep \o Join(sep, Tail(strings))

\* row_data[ACTIVE_JOBS] of row_data_from_job_state
ActiveJobsText(ids) ==
    LET active_job_ids == SortedJobIds(ids)
        n == Len(active_job_ids)
    IN  IF n > 2
        THEN Join(" ... ", <<JobIdString(active_job_ids[1]), JobIdString(active_job_ids[n])>>)
        ELSE Join(", ", [i \in 1..n |-> JobIdString(active_job_ids[i])])

\* row_data_from_job_state
row_data_from_job_state(clusters) ==
    LET states == job_states(clusters)
        counts == [js \in JobStatus |->
                      Cardinality({i \in 1..Len(states) : states[i] = js})]
        ids == UNION {ActiveIdsOf(clusters[i]) : i \in 1..Len(clusters)}
    IN  [h \in JobStatus \cup {TOTAL, ACTIVE_JOBS} |->
            IF h = ACTIVE_JOBS THEN ActiveJobsText(ids)
            ELSE IF h = TOTAL THEN SumOver(counts, JobStatus)
            ELSE counts[h]]

\* totals of make_rows_from_groups before the first group is added
ZeroTotals == [h \in JobStatus \cup {TOTAL} |-> 0]

\* the row of one group: row_data plus row_data[key]
GroupRow(group, k) ==
    LET row_data == row_data_from_job_state(group.clusters)
        shown == IF k = EVENT_LOG THEN nice_path(group.value) ELSE group.value
    IN  [h \in DOMAIN row_data \cup {k} |-> IF h = k THEN shown ELSE row_data[h]]

\* the totals assigned from each row instead of added to
TotalsLoop_Overwrite(acc, row_seq) ==
    IF row_seq = <<>> THEN acc
    ELSE [h \in DOMAIN acc |-> row_seq[Len(row_seq)].row[h]]

\* the loop of make_rows_from_groups over the rows: totals[...] += row_data[...]
RECURSIVE TotalsLoop(_, _)
TotalsLoop(acc, row_seq) ==
    IF row_seq = <<>> THEN acc
    ELSE TotalsLoop([h \in DOMAIN acc |-> acc[h] + Head(row_seq).row[h]], Tail(row_seq))

\* make_rows_from_groups: rows (in the order of the groups) and totals
make_rows_from_groups(groups, k) ==
    LET row_seq == [i \in 1..Len(groups) |->
                       [value |-> groups[i].value, row |-> GroupRow(groups[i], k)]]
    IN  [rows |-> row_seq, totals |-> TotalsLoop(ZeroTotals, row_seq)]

\* row[h] == 0 for a header of HEADERS (the JOB_IDS value is a string)
HeaderIsZero(row, h) == h # ACTIVE_JOBS /\ row[h] = 0

\* strip_empty_columns without the always-include set
strip_empty_columns_NoAlways(rows_by_key) ==
    LET all_zero == {HEADERS[n] : n \in {m \in 1..Len(HEADERS) :
                        \A i \in 1..Len(rows_by_key) :
                            HeaderIsZero(rows_by_key[i].row, HEADERS[m])}}
        dont_include == all_zero
        keep(h) == h \notin dont_include
    IN  [headers |-> SelectSeq(HEADERS, keep),
         rows |-> [i \in 1..Len(rows_by_key) |->
                     [value |-> rows_by_key[i].value,
                      row |-> [h \in DOMAIN rows_by_key[i].row \ dont_include |->
                                  rows_by_key[i].row[h]]]]]

\* strip_empty_columns
strip_empty_columns(rows_by_key) ==
    LET all_zero == {HEADERS[n] : n \in {m \in 1..Len(HEADERS) :
                        \A i \in 1..Len(rows_by_key) :
                            HeaderIsZero(rows_by_key[i].row, HEADERS[m])}}
        dont_include == all_zero \ ALWAYS_INCLUDE
        keep(h) == h \notin dont_include
    IN  [headers |-> SelectSeq(HEADERS, keep),
         rows |-> [i \in 1..Len(rows_by_key) |->
                     [value |-> rows_by_key[i].value,
                      row |-> [h \in DOMAIN rows_by_key[i].row \ dont_include |->
                                  rows_by_key[i].row[h]]]]]

\* v != 0 for the value of column h of a row
CellNonZero(row, h) == ~(h \in JobStatus \cup {TOTAL, CLUSTER_ID} /\ row[h] = 0)

\* "strip out 0 values" in watch_q
StripZeroValues(rows_by_key) ==
    [i \in 1..Len(rows_by_key) |->
        [value |-> rows_by_key[i].value,
         row |-> [h \in {c \in DOMAIN rows_by_key[i].row :
                            CellNonZero(rows_by_key[i].row, c)} |->
                     rows_by_key[i].row[h]]]]

\* min(cluster.cluster_id for cluster in clusters)
MinClusterId(clusters) ==
    CHOOSE c \in {clusters[i].cluster_id : i \in 1..Len(clusters)} :
        \A i \in 1..Len(clusters) : c <= clusters[i].cluster_id

\* the sort key of watch_q for the row of a group value
RowSortKey(groups, value) ==
    LET i == CHOOSE n \in 1..Len(groups) : groups[n].value = value
    IN  MinClusterId(groups[i].clusters)

\* insertion of one item into a sequence sorted by sort_key, after its equals
RECURSIVE InsertByKey(_, _)
InsertByKey(sorted_items, item) ==
    IF sorted_items = <<>> THEN <<item>>
    ELSE IF item.sort_key < Head(sorted_items).sort_key
         THEN <<item>> \o sorted_items
         ELSE <<Head(sorted_items)>> \o InsertByKey(Tail(sorted_items), item)

\* sorted(items, key=...) for items carrying their key: a stable sort
RECURSIVE SortedLoop(_, _)
SortedLoop(acc, items) ==
    IF items = <<>> THEN acc
    ELSE SortedLoop(InsertByKey(acc, Head(items)), Tail(items))

\* the rows left in the order of the dict, unsorted
SortRows_DictOrder(rows_by_key, groups) == rows_by_key

\* sorted(rows_by_key.items(), key=min cluster id of the group)
SortRows(rows_by_key, groups) ==
    LET keyed == [i \in 1..Len(rows_by_key) |->
                    [sort_key |-> RowSortKey(groups, rows_by_key[i].value),
                     item |-> rows_by_key[i]]]
        result == SortedLoop(<<>>, keyed)
    IN  [i \in 1..Len(result) |-> result[i].item]

----------------------------------------------------------------------------
(* Progress bar *)

PROGRESS_BAR_ORDER == <<"COMPLETED", "RUNNING", "IDLE", "HELD", "SUSPENDED", "REMOVED">>

\* the cap make_progress_bar puts on the width
BarWidthCap == 79

Min(a, b) == IF a <= b THEN a ELSE b

\* the <<width, n, num_total>> with num_total <= 35 and -1 <= width <= 77 for
\* which width * (n / float(num_total)) is a whole number in exact arithmetic
\* and falls just below it in binary64 arithmetic
FloatRoundsBelow ==
    {<<22, 15, 22>>, <<23, 13, 23>>, <<26, 15, 26>>, <<44, 15, 22>>, <<46, 13, 23>>,
     <<52, 15, 26>>, <<55, 3, 11>>, <<55, 6, 11>>, <<55, 6, 22>>, <<55, 12, 22>>,
     <<55, 9, 33>>, <<55, 18, 33>>, <<69, 21, 23>>, <<75, 11, 15>>, <<75, 22, 30>>}

\* the exact product width * n / num_total truncated towards zero
ExactTruncated(width, n, num_total) ==
    IF width >= 0 THEN (width * n) \div num_total
    ELSE -(((-width) * n) \div num_total)

\* int(width * safe_divide(n, num_total)): 0 when n or num_total is 0 or
\* missing, else the binary64 product truncated towards zero
SectionLength(width, n, num_total) ==
    IF n = 0 \/ num_total = 0 THEN 0
    ELSE IF <<width, n, num_total>> \in FloatRoundsBelow
         THEN ExactTruncated(width, n, num_total) - 1
         ELSE ExactTruncated(width, n, num_total)

\* argmax: index of the first greatest element
argmax(collection) ==
    CHOOSE i \in 1..Len(collection) :
        /\ \A j \in 1..Len(collection) : collection[j] <= collection[i]
        /\ \A j \in 1..(i - 1) : collection[j] < collection[i]

\* totals.get(status) of make_progress_bar, None read as 0 by safe_divide
TotalsGet(t, status) == IF status \in DOMAIN t THEN t[status] ELSE 0

\* make_progress_bar with the rounded-off space dropped
make_progress_bar_NoRemainder(t, terminal_width) ==
    LET width == Min(terminal_width, BarWidthCap) - 2
        num_total == t[TOTAL]
    IN  [i \in 1..Len(PROGRESS_BAR_ORDER) |->
            SectionLength(width, TotalsGet(t, PROGRESS_BAR_ORDER[i]), num_total)]

\* bar_section_lengths of make_progress_bar
make_progress_bar(t, terminal_width) ==
    LET width == Min(terminal_width, BarWidthCap) - 2
        num_total == t[TOTAL]
        bar_section_lengths ==
            [i \in 1..Len(PROGRESS_BAR_ORDER) |->
                SectionLength(width, TotalsGet(t, PROGRESS_BAR_ORDER[i]), num_total)]
        longest == argmax(bar_section_lengths)
    IN  [bar_section_lengths EXCEPT
            ![longest] = @ + (width - SumSeq(bar_section_lengths))]

----------------------------------------------------------------------------
(* Table *)

\* the escape character \033 of the Color values, written ^ here
ESC == "^"

\* Color
Color(name) ==
    CASE name = "RED" -> ESC \o "[31m"
      [] name = "GREEN" -> ESC \o "[32m"
      [] name = "YELLOW" -> ESC \o "[33m"
      [] name = "BRIGHT_YELLOW" -> ESC \o "[33;1m"
      [] name = "CYAN" -> ESC \o "[36m"
      [] name = "BRIGHT_WHITE" -> ESC \o "[37;1m"
      [] name = "RESET" -> ESC \o "[0m"

colorize(string, color_) == color_ \o string \o Color("RESET")

\* row.get(h, 0) for a count of a row handed to make_table
RowGet(row, h) == IF h \in DOMAIN row THEN row[h] ELSE 0

\* determine_row_color; a row without DONE has row.get(COMPLETED) None, which
\* is not its TOTAL
determine_row_color(row) ==
    IF RowGet(row, "HELD") > 0 THEN Color("RED")
    ELSE IF RowGet(row, "COMPLETED") = RowGet(row, TOTAL) THEN Color("GREEN")
    ELSE IF RowGet(row, "RUNNING") > 0 THEN Color("CYAN")
    ELSE IF RowGet(row, "IDLE") > 0 THEN Color("YELLOW")
    ELSE Color("BRIGHT_WHITE")

\* the i-th character of a string
CharAt(string, i) == SubSeq(string, i, i)

\* the end of the escape sequence that starts at i with ESC [, 0 when the
\* string ends before its final character
RECURSIVE SequenceEnd(_, _)
SequenceEnd(string, j) ==
    IF j > Len(string) THEN 0
    ELSE IF CharAt(string, j) \in {"0", "1", "2", "3", "4", "5", "6", "7", "8", "9", ";"}
         THEN SequenceEnd(string, j + 1)
         ELSE j

\* strip_ansi: ANSI_ESCAPE_RE.sub("", string) for strings whose escape
\* sequences are those of Color
RECURSIVE strip_ansi(_)
strip_ansi(string) ==
    LET starts == {i \in 1..(Len(string) - 1) :
                      /\ CharAt(string, i) = ESC
                      /\ CharAt(string, i + 1) = "["
                      /\ SequenceEnd(string, i + 2) # 0}
    IN  IF starts = {} THEN string
        ELSE LET first == CHOOSE i \in starts : \A j \in starts : i <= j
             IN  SubSeq(string, 1, first - 1)
                     \o strip_ansi(SubSeq(string, SequenceEnd(string, first + 2) + 1,
                                          Len(string)))

\* ch * n
RECURSIVE Repeat(_, _)
Repeat(ch, n) == IF n <= 0 THEN "" ELSE ch \o Repeat(ch, n - 1)

\* str.rstrip() of a string whose only whitespace is the space
RECURSIVE rstrip(_)
rstrip(string) ==
    IF string # "" /\ CharAt(string, Len(string)) = " "
    THEN rstrip(SubSeq(string, 1, Len(string) - 1))
    ELSE string

\* str(h) of a header: the value of a JobStatus member, else the string itself
HeaderText(h) ==
    CASE h = "RUNNING" -> "RUN"
      [] h = "COMPLETED" -> "DONE"
      [] OTHER -> h

\* TABLE_ALIGNMENT[h]
TABLE_ALIGNMENT(h) ==
    IF h \in {EVENT_LOG, CLUSTER_ID, ACTIVE_JOBS, BATCH_NAME} THEN "ljust" ELSE "rjust"

\* getattr(text, method)(width)
Justify(text, width, method) ==
    IF method = "ljust"
    THEN text \o Repeat(" ", width - Len(text))
    ELSE Repeat(" ", width - Len(text)) \o text

\* str(row.get(h, fill)): a count or a cluster id in decimal, a path with its
\* components joined by "/", a batch name or the job ids as they are
CellText(row, h, fill) ==
    IF h \notin DOMAIN row THEN fill
    ELSE IF h \in JobStatus \cup {TOTAL, CLUSTER_ID} THEN ToString(row[h])
    ELSE IF h = EVENT_LOG THEN Join("/", row[h])
    ELSE row[h]

Max(a, b) == IF a >= b THEN a ELSE b

\* the text of make_progress_bar(row, width), colored
BarText(row, width) ==
    LET lengths == make_progress_bar(row, width)
        chars == <<"#", "=", "-", "!", "!", "!">>
        colors == <<"GREEN", "CYAN", "BRIGHT_YELLOW", "RED", "RED", "RED">>
    IN  "[" \o Join("", [i \in 1..6 |->
                            colorize(Repeat(chars[i], lengths[i]), Color(colors[i]))])
            \o "]"

\* make_table(row_progress_bar, terminal_columns, headers, rows, row_fmt,
\* alignment=TABLE_ALIGNMENT, fill="-") with row_fmt the coloring of watch_q
\* when color is set and None when not: the header line and the row lines
make_table(row_progress_bar_, columns, headers_, rows_, color_) ==
    LET fill == "-"
        processed_rows ==
            [i \in 1..Len(rows_) |->
                [n \in 1..Len(headers_) |-> CellText(rows_[i], headers_[n], fill) \o " "]]
        RECURSIVE LengthsLoop(_, _)
        LengthsLoop(lengths, i) ==
            IF i > Len(processed_rows) THEN lengths
            ELSE LengthsLoop([n \in 1..Len(headers_) |->
                                 Max(lengths[n], Len(processed_rows[i][n]))], i + 1)
        lengths == LengthsLoop([n \in 1..Len(headers_) |-> Len(HeaderText(headers_[n]))], 1)
        header == rstrip(Join("  ", [n \in 1..Len(headers_) |->
                     Justify(HeaderText(headers_[n]), lengths[n],
                             TABLE_ALIGNMENT(headers_[n]))]))
        joined(i) == Join("  ", [n \in 1..Len(headers_) |->
                        Justify(processed_rows[i][n], lengths[n],
                                TABLE_ALIGNMENT(headers_[n]))])
        lines == [i \in 1..Len(rows_) |->
                    IF color_ THEN colorize(joined(i), determine_row_color(rows_[i]))
                    ELSE joined(i)]
        remaining_columns ==
            IF lines = <<>> THEN 0 ELSE columns - Len(strip_ansi(lines[1]))
    IN  <<header>> \o
        (IF row_progress_bar_ /\ remaining_columns > 10
         THEN [i \in 1..Len(lines) |-> lines[i] \o BarText(rows_[i], remaining_columns)]
         ELSE [i \in 1..Len(lines) |-> SubSeq(lines[i], 1, Min(columns, Len(lines[i])))])

----------------------------------------------------------------------------
(* Summary line *)

SUMMARY_STATES == <<"COMPLETED", "REMOVED", "IDLE", "RUNNING", "HELD", "SUSPENDED">>

SUMMARY_MESSAGES == <<"completed", "removed", "idle", "running", "held", "suspended">>

\* msg[:n] for n >= 0
Prefix(msg, n) == SubSeq(msg, 1, Min(n, Len(msg)))

\* the summary make_summary_with_totals formats in the iteration with this strip
SummaryWithTotalsAt(t, strip_) ==
    LET shown == SelectSeq(<<1, 2, 3, 4, 5, 6>>, LAMBDA i : t[SUMMARY_STATES[i]] > 0)
        part(i) == ToString(t[SUMMARY_STATES[i]]) \o " " \o Prefix(SUMMARY_MESSAGES[i], strip_)
    IN  "Total: " \o ToString(t[TOTAL]) \o " jobs; " \o Join(", ", [n \in 1..Len(shown) |-> part(shown[n])])

\* the while loop of make_summary_with_totals entered with this strip, width
\* not None: the strip and the summary it breaks with
RECURSIVE SummaryLoop(_, _, _)
SummaryLoop(t, width, strip_) ==
    LET next_strip == strip_ - 1
        text == SummaryWithTotalsAt(t, next_strip)
    IN  IF Len(text) <= width \/ next_strip <= 2
        THEN [strip |-> next_strip, summary |-> text]
        ELSE SummaryLoop(t, width, next_strip)

\* make_summary_with_totals(totals, width)
make_summary_with_totals(t, width) == SummaryLoop(t, width, 11).summary

\* round(x) of Python 3 for x = num / den >= 0: to the nearest integer, a
\* half to the even one
RoundHalfEven(num, den) ==
    LET q == num \div den
        r == num % den
    IN  IF 2 * r < den THEN q
        ELSE IF 2 * r > den THEN q + 1
        ELSE IF q % 2 = 0 THEN q ELSE q + 1

\* round(100.0 * safe_divide(totals[s], num_total))
Percentage(n, num_total) ==
    IF n = 0 \/ num_total = 0 THEN 0 ELSE RoundHalfEven(100 * n, num_total)

\* msg[0].upper()
Initial(msg) ==
    CASE msg = "completed" -> "C"
      [] msg = "removed" -> "R"
      [] msg = "idle" -> "I"
      [] msg = "running" -> "R"
      [] msg = "held" -> "H"
      [] msg = "suspended" -> "S"

\* the summary of make_summary_with_percentages, with the messages in full or
\* cut to their initials
SummaryWithPercentages(t, initials) ==
    LET label(msg) == IF initials THEN Initial(msg) ELSE msg
        part(i) == ToString(Percentage(t[SUMMARY_STATES[i]], t[TOTAL])) \o "% "
                       \o label(SUMMARY_MESSAGES[i])
    IN  "Total: " \o ToString(t[TOTAL]) \o " jobs; "
            \o Join(", ", [i \in 1..6 |-> part(i)])

\* make_summary_with_percentages(totals, width), width not None; summary[0]
\* is the first character of the summary
make_summary_with_percentages(t, width) ==
    LET full == SummaryWithPercentages(t, FALSE)
    IN  IF Len(SubSeq(full, 1, 1)) > width
        THEN SummaryWithPercentages(t, TRUE)
        ELSE full

----------------------------------------------------------------------------
(* watch_q *)

GroupKeys == {EVENT_LOG, CLUSTER_ID, BATCH_NAME}

\* the permutations of a set as sequences: the orders a set can be iterated in
Orderings(S) ==
    {f \in [1..Cardinality(S) -> S] : \A i, j \in 1..Cardinality(S) : f[i] = f[j] => i = j}

\* terminal_rows of get_terminal_size()
TerminalRows == {24}

\* the number of lines of msg: the table (header and rows), the progress bar,
\* the summary and "Updated at", each followed by a blank line; cut when the
\* terminal is too low; "..." without refresh; "Input ^c to exit" without
\* exit conditions
MsgLines(n_rows, terminal_rows, refresh_, conditions) ==
    LET sections == (1 + n_rows) + 1 + 1 + 1 + 1 + 1 + 1 + 1
        joined == IF sections > terminal_rows
                  THEN (terminal_rows - 2) + 1
                  ELSE sections - 1
    IN  joined + (IF refresh_ THEN 0 ELSE 1) + (IF conditions = <<>> THEN 1 ELSE 0)

\* the locals of the loop body before the first aggregation of a tick
NoRender ==
    /\ totals = ZeroTotals
    /\ headers = <<>>
    /\ stripped = <<>>
    /\ rows = <<>>
    /\ terminal_columns = 0
    /\ bar = <<>>
    /\ strip = 0
    /\ summary = ""
    /\ table = <<>>

\* the tracker and the loop of a process that has not started yet
NoTracker ==
    /\ event_readers = <<>>
    /\ warnings = <<>>
    /\ cluster_id_to_cluster = <<>>
    /\ reader_idx = 0
    /\ messages = 0
    /\ msg_lines = 0
    /\ move = 0
    /\ written = <<>>
    /\ exit_status = <<>>
    /\ announced = <<>>
    /\ referenced = {}
    /\ last_mapped = [j \in JobIds |-> None]
    /\ last_source = [c \in ClusterIds |-> None]

\* the state of a process that has not started yet
NotStarted ==
    /\ event_readers = <<>>
    /\ warnings = <<>>
    /\ cluster_id_to_cluster = <<>>
    /\ reader_idx = 0
    /\ messages = 0
    /\ msg_lines = 0
    /\ move = 0
    /\ written = <<>>
    /\ NoRender
    /\ exit_status = <<>>
    /\ announced = <<>>
    /\ referenced = {}
    /\ last_mapped = [j \in JobIds |-> None]
    /\ last_source = [c \in ClusterIds |-> None]

OneLog == {<<"tmp", "b.log">>}

Configuration(logs, can_open, names, conditions, k) ==
    [event_logs |-> logs, openable |-> can_open, batch_names |-> names,
     exit_conditions |-> conditions, key |-> k]

\* the jobs the event logs of most runs mention
TwoJobs == {<<2, 0>>, <<10, 0>>}

Run(c, jobs) == [config |-> c, jobs |-> jobs]

\* the runs of the model without refresh: two event logs grouped by event log;
\* one event log under every other grouping and every batch name hint; one
\* event log that mentions three jobs; one event log under every list of exit
\* conditions; event logs that fail to open; no event log
Runs ==
    {Run(Configuration(LogPaths, LogPaths, NoBatchNames, <<>>, EVENT_LOG), TwoJobs)} \cup
    {Run(Configuration(OneLog, OneLog, names, <<>>, k), TwoJobs) :
        names \in BatchNameHints, k \in {BATCH_NAME, CLUSTER_ID}} \cup
    {Run(Configuration(OneLog, OneLog, NoBatchNames, <<>>, CLUSTER_ID), JobIds)} \cup
    {Run(Configuration(OneLog, OneLog, NoBatchNames, conditions, BATCH_NAME), TwoJobs) :
        conditions \in ExitConditionLists} \cup
    {Run(Configuration(LogPaths, can_open, NoBatchNames, <<>>, EVENT_LOG), TwoJobs) :
        can_open \in (SUBSET LogPaths) \ {LogPaths}} \cup
    {Run(Configuration({}, {}, NoBatchNames, conditions, BATCH_NAME), TwoJobs) :
        conditions \in {<<>>, <<<<"all", "done", 0>>, <<"any", "held", 1>>>>}}

\* the runs of the model with refresh: one event log grouped by cluster id,
\* and one event log with exit conditions
RefreshRuns ==
    {Run(Configuration(OneLog, OneLog, NoBatchNames, <<>>, CLUSTER_ID), TwoJobs),
     Run(Configuration(OneLog, OneLog, NoBatchNames, <<<<"any", "held", 1>>>>, CLUSTER_ID),
         TwoJobs)}

\* the options of watch_q, with refresh and dag as given and the defaults
\* row_progress_bar=True, color=True, and the directories of the environment
ConfiguredWith(c, refresh_, dag_, dagman) ==
    /\ event_logs = c.event_logs
    /\ openable = c.openable
    /\ batch_names = c.batch_names
    /\ exit_conditions = c.exit_conditions
    /\ key = c.key
    /\ refresh = refresh_
    /\ row_progress_bar = TRUE
    /\ color = TRUE
    /\ dag = dag_
    /\ dagman_clusters_to_path = dagman
    /\ home_dir = HomeDir
    /\ cwd = CurrentDir

\* the options of watch_q with the defaults refresh=True, dag=False
Configured(c) == ConfiguredWith(c, TRUE, FALSE, <<>>)

\* the event logs may hold any event of the given jobs
AnyEventOf(jobs) == [scripted |-> FALSE, script |-> <<>>, pos |-> 1, jobs |-> jobs]

EventOf(type, job) == [type |-> type, cluster |-> job[1], proc |-> job[2]]

\* the event logs hold SUBMIT, SUBMIT, SUBMIT for three distinct jobs, then
\* EXECUTE for one of them and JOB_HELD for another
ScenarioScripts ==
    {<<EventOf("SUBMIT", order[1]), EventOf("SUBMIT", order[2]),
       EventOf("SUBMIT", order[3]), EventOf("EXECUTE", pair[1]),
       EventOf("JOB_HELD", pair[2])>> :
        order \in Orderings(JobIds),
        pair \in {p \in JobIds \X JobIds : p[1] # p[2]}}

\* the event logs hold a terminal event of a job and then its SUBMIT
RevivalScripts ==
    {<<EventOf(type, job), EventOf("SUBMIT", job)>> :
        type \in {"JOB_TERMINATED", "JOB_ABORTED"}, job \in JobIds}

\* the event logs hold the same terminal event of a job twice
RepeatScripts ==
    {<<EventOf(type, job), EventOf(type, job)>> :
        type \in {"JOB_TERMINATED", "JOB_ABORTED"}, job \in JobIds}

Scripts == ScenarioScripts \cup RevivalScripts \cup RepeatScripts

AnyHeldExits == <<<<"any", "held", 1>>>>

ScriptedConfigurations ==
    {Configuration(logs, logs, NoBatchNames, conditions, BATCH_NAME) :
        logs \in {LogPaths, OneLog}, conditions \in {<<>>, AnyHeldExits}}

\* a run whose event logs hold any events, or a run whose event logs hold
\* exactly the events of one script (the scripts of three jobs with one event
\* log only)
Init ==
    /\ pc = "start"
    /\ \/ \E run \in Runs :
             /\ ConfiguredWith(run.config, FALSE, FALSE, <<>>)
             /\ feed = AnyEventOf(run.jobs)
       \/ \E run \in RefreshRuns :
             /\ Configured(run.config)
             /\ feed = AnyEventOf(run.jobs)
       \/ \E c \in ScriptedConfigurations, script \in Scripts :
             /\ script \in ScenarioScripts => c.event_logs = OneLog
             /\ ConfiguredWith(c, FALSE, FALSE, <<>>)
             /\ feed = [scripted |-> TRUE, script |-> script, pos |-> 1, jobs |-> JobIds]
    /\ NotStarted

\* sys.exit(status): the process ends and its memory goes with it; what it
\* printed (the rendered block) stays
SysExit(status) ==
    /\ pc' = "done"
    /\ exit_status' = <<status>>
    /\ event_readers' = <<>>
    /\ cluster_id_to_cluster' = <<>>
    /\ reader_idx' = 0
    /\ messages' = 0
    /\ msg_lines' = 0
    /\ move' = 0
    /\ referenced' = {}
    /\ last_mapped' = [j \in JobIds |-> None]
    /\ last_source' = [c \in ClusterIds |-> None]

\* Startup with a reader kept for every event log, opened or not
Startup_KeepAll ==
    /\ pc = "start"
    /\ IF event_logs = {}
       THEN SysExit(0) /\ UNCHANGED <<warnings, written>>
       ELSE /\ event_readers' \in Orderings(event_logs)
            /\ warnings' = [path \in event_logs \ openable |-> 1]
            /\ pc' = "process"
            /\ reader_idx' = 1
            /\ UNCHANGED <<cluster_id_to_cluster, messages, screen, exit_status, history>>
    /\ UNCHANGED <<config, rendered, announced, feed>>

\* Startup without the test for an empty list of event logs
Startup_NoTest ==
    /\ pc = "start"
    /\ event_readers' \in Orderings(event_logs \cap openable)
    /\ warnings' = [path \in event_logs \ openable |-> 1]
    /\ pc' = "process"
    /\ reader_idx' = 1
    /\ UNCHANGED <<cluster_id_to_cluster, messages, screen, exit_status, history>>
    /\ UNCHANGED <<config, rendered, announced, feed>>

\* watch_q up to the loop: sys.exit(0) when no event log was found, else
\* JobStateTracker.__init__ over the event logs that open
Startup ==
    /\ pc = "start"
    /\ IF event_logs = {}
       THEN SysExit(0) /\ UNCHANGED <<warnings, written>>
       ELSE /\ event_readers' \in Orderings(event_logs \cap openable)
            /\ warnings' = [path \in event_logs \ openable |-> 1]
            /\ pc' = "process"
            /\ reader_idx' = 1
            /\ UNCHANGED <<cluster_id_to_cluster, messages, screen, exit_status, history>>
    /\ UNCHANGED <<config, rendered, announced, feed>>

Reading == pc = "process" /\ reader_idx \in 1..Len(event_readers)

\* process_events: next(events) yields the event ev, which is applied
ReadEventOf(ev) ==
    /\ Reading
    /\ IF feed.scripted
       THEN /\ feed.pos <= Len(feed.script)
            /\ ev = feed.script[feed.pos]
            /\ feed' = [feed EXCEPT !.pos = @ + 1]
       ELSE /\ <<ev.cluster, ev.proc>> \in feed.jobs
            /\ UNCHANGED feed
    /\ referenced' = referenced \cup {<<ev.cluster, ev.proc>>}
    /\ last_mapped' =
          IF ev.type \in MappedEventTypes
          THEN [last_mapped EXCEPT ![<<ev.cluster, ev.proc>>] =
                   JOB_EVENT_STATUS_TRANSITIONS(ev.type)]
          ELSE last_mapped
    /\ last_source' =
          IF ev.type \in MappedEventTypes
          THEN [last_source EXCEPT ![ev.cluster] = event_readers[reader_idx]]
          ELSE last_source
    /\ cluster_id_to_cluster' =
          ApplyEvent(cluster_id_to_cluster, batch_names, event_readers[reader_idx], ev)
    /\ UNCHANGED <<pc, config, event_readers, reader_idx, messages, rendered,
                   exit_status, announced>>
    /\ UNCHANGED <<warnings, screen>>

ReadEvent == \E ev \in LogEvents : ReadEventOf(ev)

\* ReadFail with the reader given up after the failure
ReadFail_Abandon ==
    /\ Reading
    /\ messages < MaxMessages
    /\ messages' = messages + 1
    /\ reader_idx' = reader_idx + 1
    /\ UNCHANGED <<pc, config, tracker, rendered, exit_status, announced, feed, history>>
    /\ UNCHANGED <<warnings, screen>>

\* process_events: next(events) raises, a diagnostic is appended
ReadFail ==
    /\ Reading
    /\ messages < MaxMessages
    /\ messages' = messages + 1
    /\ UNCHANGED <<pc, config, tracker, reader_idx, rendered, exit_status, announced, feed, history>>
    /\ UNCHANGED <<warnings, screen>>

\* ReadStop with the first reader taken up again after the last one
ReadStop_Restart ==
    /\ Reading
    /\ reader_idx' = IF reader_idx = Len(event_readers) THEN 1 ELSE reader_idx + 1
    /\ UNCHANGED <<pc, config, tracker, messages, rendered, exit_status, announced, feed, history>>
    /\ UNCHANGED <<warnings, screen>>

\* process_events: next(events) raises StopIteration, on to the next reader
ReadStop ==
    /\ Reading
    /\ reader_idx' = reader_idx + 1
    /\ UNCHANGED <<pc, config, tracker, messages, rendered, exit_status, announced, feed, history>>
    /\ UNCHANGED <<warnings, screen>>

\* watch_q after process_events returned: grouping, rows, totals, pruning,
\* sorting and the progress bar of this tick
Render ==
    /\ pc = "process"
    /\ reader_idx > Len(event_readers)
    /\ \E columns \in TerminalColumns :
        LET groups_by_key ==
                IF dag
                THEN group_jobs_by_dag(cluster_id_to_cluster, key, dagman_clusters_to_path,
                                       batch_names)
                ELSE group_clusters_by_key(cluster_id_to_cluster, key)
            made == make_rows_from_groups(groups_by_key, key)
            pruned == strip_empty_columns(made.rows)
        IN  /\ totals' = made.totals
            /\ headers' = pruned.headers
            /\ stripped' = pruned.rows
            /\ rows' = SortRows(StripZeroValues(pruned.rows), groups_by_key)
            /\ terminal_columns' = columns
            /\ bar' = make_progress_bar(made.totals, columns)
            /\ LET last == SummaryLoop(made.totals, columns, 11)
               IN  strip' = last.strip /\ summary' = last.summary
            /\ table' = LET sorted_rows == SortRows(StripZeroValues(pruned.rows),
                                                   groups_by_key)
                        IN  make_table(row_progress_bar, columns, <<key>> \o pruned.headers,
                                       [i \in 1..Len(sorted_rows) |-> sorted_rows[i].row],
                                       color)
            /\ move' = IF msg_lines # 0 /\ refresh THEN msg_lines ELSE move
            /\ \E terminal_rows \in TerminalRows :
                  msg_lines' = MsgLines(Len(pruned.rows), terminal_rows, refresh,
                                        exit_conditions)
    /\ pc' = "erase"
    /\ UNCHANGED <<config, tracker, reader_idx, messages, written, exit_status, announced,
                   feed, history>>
    /\ UNCHANGED warnings

\* watch_q: sys.stdout.write(move + clear + move) when a block was printed
\* before in refresh mode
Erase ==
    /\ pc = "erase"
    /\ written' = IF move # 0 THEN Append(written, <<"stdout", "erase", move>>) ELSE written
    /\ pc' = "emit"
    /\ UNCHANGED <<config, tracker, warnings, locals, rendered, msg_lines, move,
                   exit_status, announced, feed, history>>

\* EmitDiagnostics with the diagnostics printed to sys.stdout
EmitDiagnostics_Stdout ==
    /\ pc = "emit"
    /\ written' = IF messages > 0
                  THEN Append(written, <<"stdout", "diagnostics", messages>>)
                  ELSE written
    /\ pc' = "print"
    /\ UNCHANGED <<config, tracker, warnings, locals, rendered, msg_lines, move,
                   exit_status, announced, feed, history>>

\* watch_q: the diagnostics of this tick are printed to sys.stderr
EmitDiagnostics ==
    /\ pc = "emit"
    /\ written' = IF messages > 0
                  THEN Append(written, <<"stderr", "diagnostics", messages>>)
                  ELSE written
    /\ pc' = "print"
    /\ UNCHANGED <<config, tracker, warnings, locals, rendered, msg_lines, move,
                   exit_status, announced, feed, history>>
\* PrintBlock with an event of the first reader applied while the block is
\* printed
PrintBlock_Reading ==
    /\ pc = "print"
    /\ written' = Append(written, <<"stdout", "block", msg_lines>>)
    /\ pc' = "check"
    /\ cluster_id_to_cluster' =
          IF Len(event_readers) > 0
          THEN ApplyEvent(cluster_id_to_cluster, batch_names, event_readers[1],
                          [type |-> "JOB_HELD", cluster |-> 2, proc |-> 0])
          ELSE cluster_id_to_cluster
    /\ UNCHANGED <<config, event_readers, warnings, locals, rendered, msg_lines, move,
                   exit_status, announced, feed, history>>

\* watch_q: print(msg)
PrintBlock ==
    /\ pc = "print"
    /\ written' = Append(written, <<"stdout", "block", msg_lines>>)
    /\ pc' = "check"
    /\ UNCHANGED <<config, tracker, warnings, locals, rendered, msg_lines, move,
                   exit_status, announced, feed, history>>

\* grouper((checker(s) for s in tracker.job_states))
ConditionHolds(condition, clusters) ==
    LET states == job_states(clusters)
    IN  EXIT_GROUPERS(condition[1],
                      [i \in 1..Len(states) |-> EXIT_JOB_STATUS_CHECK(condition[2], states[i])])

\* FirstExit with the loop run to its end: the last exit condition that holds
FirstExit_Last(conditions, clusters) ==
    IF \E i \in 1..Len(conditions) : ConditionHolds(conditions[i], clusters)
    THEN CHOOSE i \in 1..Len(conditions) :
            /\ ConditionHolds(conditions[i], clusters)
            /\ \A j \in (i + 1)..Len(conditions) : ~ConditionHolds(conditions[j], clusters)
    ELSE 0

\* index of the first exit condition that holds, 0 when none does
FirstExit(conditions, clusters) ==
    IF \E i \in 1..Len(conditions) : ConditionHolds(conditions[i], clusters)
    THEN CHOOSE i \in 1..Len(conditions) :
            /\ ConditionHolds(conditions[i], clusters)
            /\ \A j \in 1..(i - 1) : ~ConditionHolds(conditions[j], clusters)
    ELSE 0

\* watch_q: the loop over exit_checks, sys.exit(exit_status) on the first hit
CheckExit ==
    /\ pc = "check"
    /\ LET hit == FirstExit(exit_conditions, cluster_id_to_cluster)
       IN  IF hit = 0
           THEN /\ pc' = "sleep"
                /\ UNCHANGED <<tracker, locals, screen, exit_status, announced, history>>
           ELSE /\ announced' = <<exit_conditions[hit][1], exit_conditions[hit][2]>>
                /\ written' = Append(written, <<"stdout", "exit", 1>>)
                /\ SysExit(exit_conditions[hit][3])
    /\ UNCHANGED <<config, warnings, rendered, feed>>

\* watch_q: time.sleep(2), then the next call of process_events; the rows and
\* totals of the tick that ends are dead from here on, and so are move, which
\* is assigned again before it is read, and without refresh msg
Sleep ==
    /\ pc = "sleep"
    /\ pc' = "process"
    /\ reader_idx' = 1
    /\ messages' = 0
    /\ totals' = ZeroTotals
    /\ headers' = <<>>
    /\ stripped' = <<>>
    /\ rows' = <<>>
    /\ terminal_columns' = 0
    /\ bar' = <<>>
    /\ strip' = 0
    /\ summary' = ""
    /\ table' = <<>>
    /\ move' = 0
    /\ written' = <<>>
    /\ msg_lines' = IF refresh THEN msg_lines ELSE 0
    /\ UNCHANGED <<config, tracker, warnings, exit_status, announced, feed, history>>

\* KeyboardInterrupt caught around time.sleep only
KeyboardInterrupt_WhileSleeping ==
    /\ pc = "sleep"
    /\ SysExit(0)
    /\ UNCHANGED <<config, warnings, rendered, written, announced, feed>>

\* watch_q: except KeyboardInterrupt: sys.exit(0)
KeyboardInterrupt ==
    /\ pc \in {"process", "erase", "emit", "print", "check", "sleep"}
    /\ SysExit(0)
    /\ UNCHANGED <<config, warnings, rendered, written, announced, feed>>

Next ==
    \/ Startup
    \/ ReadEvent
    \/ ReadFail
    \/ ReadStop
    \/ Render
    \/ Erase
    \/ EmitDiagnostics
    \/ PrintBlock
    \/ CheckExit
    \/ Sleep
    \/ KeyboardInterrupt

Spec == Init /\ [][Next]_vars

\* the runs over two event logs, of which any may fail to open
LiveRuns ==
    {Run(Configuration(LogPaths, can_open, NoBatchNames, <<>>, EVENT_LOG), TwoJobs) :
        can_open \in SUBSET LogPaths}

InitLive ==
    /\ pc = "start"
    /\ \E run \in LiveRuns :
          /\ Configured(run.config)
          /\ feed = AnyEventOf(run.jobs)
    /\ NotStarted

\* the readers are made by events(0), which does not wait for events: a
\* reader that has handed out what its event log holds raises StopIteration
SpecLive == InitLive /\ [][Next]_vars /\ WF_vars(ReadStop)

----------------------------------------------------------------------------
(* make_table alone, over small trackers, every key, several terminal widths  *)
(* and both values of row_progress_bar and color                              *)

\* terminal widths handed to make_table alone
TableColumns == {10, 20, 40, 80}

\* the job statuses of one cluster: one or two jobs, each in a status a bar
\* section is drawn for
TableJobStates ==
    UNION {[procs -> {"IDLE", "RUNNING", "COMPLETED", "HELD"}] : procs \in {{0}, {0, 1}}}

TableClusters(cluster_id) ==
    {[Cluster(cluster_id, <<"tmp", "b.log">>, None) EXCEPT !.job_to_state = states] :
        states \in TableJobStates}

\* trackers of one or two clusters
TableTrackers ==
    {<<a>> : a \in TableClusters(2)}
        \cup {<<a, b>> : a \in TableClusters(2), b \in TableClusters(10)}

InitTable ==
    /\ pc = "table"
    /\ event_logs = OneLog
    /\ openable = OneLog
    /\ batch_names = NoBatchNames
    /\ exit_conditions = <<>>
    /\ key \in {EVENT_LOG, CLUSTER_ID, BATCH_NAME}
    /\ refresh = TRUE
    /\ row_progress_bar \in BOOLEAN
    /\ color \in BOOLEAN
    /\ dag = FALSE
    /\ dagman_clusters_to_path = <<>>
    /\ home_dir = HomeDir
    /\ cwd = CurrentDir
    /\ feed = AnyEventOf(TwoJobs)
    /\ NoTracker
    /\ \E clusters \in TableTrackers :
          LET groups_by_key == group_clusters_by_key(clusters, key)
              made == make_rows_from_groups(groups_by_key, key)
              pruned == strip_empty_columns(made.rows)
          IN  /\ totals = made.totals
              /\ headers = pruned.headers
              /\ stripped = pruned.rows
              /\ rows = SortRows(StripZeroValues(pruned.rows), groups_by_key)
    /\ terminal_columns \in TableColumns
    /\ bar = <<>>
    /\ strip = 0
    /\ summary = ""
    /\ table = <<>>

\* make_table(row_progress_bar, terminal_columns, [key] + headers, rows, ...)
MakeTable ==
    /\ pc = "table"
    /\ table' = make_table(row_progress_bar, terminal_columns, <<key>> \o headers,
                           [i \in 1..Len(rows) |-> rows[i].row], color)
    /\ pc' = "table_done"
    /\ UNCHANGED <<config, tracker, warnings, locals, totals, headers, stripped, rows,
                   terminal_columns, bar, strip, summary, screen, exit_status, announced,
                   feed, history>>

NextTable == MakeTable

SpecTable == InitTable /\ [][NextTable]_vars

-----------------------------------------------------------------------------

(* nice_path alone: the first aggregation of a run grouped by event log, with *)
(* one event log that held one SUBMIT event, over several home directories,   *)
(* working directories and event log paths                                    *)

\* os.path.expanduser("~")
PathHomes == {<<"home", "u">>, <<"abc", "x">>, <<"h">>}
\* os.getcwd(); <<>> is the root directory
PathCwds == {<<"home", "u", "w">>, <<"home", "u">>, <<"abc", "x">>, <<"tmp">>, <<>>}
\* the event log: a file, so neither of the directories nor above them
PathInputs == {<<"home", "u", "w", "a.log">>, <<"home", "u", "c.log">>, <<"tmp", "b.log">>,
               <<"abc", "a">>, <<"abc", "x", "d", "e.log">>, <<"a.log">>}

InitPath ==
    /\ pc = "process"
    /\ \E path \in PathInputs :
          /\ event_logs = {path}
          /\ openable = {path}
          /\ event_readers = <<path>>
          /\ cluster_id_to_cluster = <<ClusterSetItem(Cluster(2, path, None), 0, "IDLE")>>
          /\ last_source = [c \in ClusterIds |-> IF c = 2 THEN path ELSE None]
    /\ batch_names = NoBatchNames
    /\ exit_conditions = <<>>
    /\ key = EVENT_LOG
    /\ refresh = TRUE
    /\ row_progress_bar = TRUE
    /\ color = TRUE
    /\ dag = FALSE
    /\ dagman_clusters_to_path = <<>>
    /\ home_dir \in PathHomes
    /\ cwd \in PathCwds
    /\ feed = AnyEventOf({<<2, 0>>})
    /\ warnings = <<>>
    /\ reader_idx = 2
    /\ messages = 0
    /\ msg_lines = 0
    /\ move = 0
    /\ written = <<>>
    /\ exit_status = <<>>
    /\ announced = <<>>
    /\ referenced = {<<2, 0>>}
    /\ last_mapped = [j \in JobIds |-> IF j = <<2, 0>> THEN "IDLE" ELSE None]
    /\ NoRender

\* the aggregation, whose make_rows_from_groups calls nice_path
NextPath == Render

SpecPath == InitPath /\ [][NextPath]_vars

-----------------------------------------------------------------------------

(* The poll loop with the dag option                                          *)

\* the ads of a run with the dag option: the ads with a DAGManNodesLog, and
\* the event logs find_job_event_logs returns for all ads
DagAds(dagman, logs) == [dagman_clusters_to_path |-> dagman, event_logs |-> logs]

\* every ad has the DAGManNodesLog /tmp/b.log; or the ad of cluster 10 has
\* it and the ad of cluster 2 has the UserLog /home/u/w/a.log only
DagQueues ==
    {DagAds(<<[cluster_id |-> 2, path |-> <<"tmp", "b.log">>],
              [cluster_id |-> 10, path |-> <<"tmp", "b.log">>]>>, OneLog),
     DagAds(<<[cluster_id |-> 10, path |-> <<"tmp", "b.log">>]>>, LogPaths)}

\* the batch names of the ads of a run with the dag option
DagBatchNames == [c \in ClusterIds |-> IF c = 2 THEN "z" ELSE "a"]

InitDag ==
    /\ pc = "start"
    /\ \E queue \in DagQueues, conditions \in {<<>>, <<<<"all", "done", 0>>>>} :
          /\ conditions # <<>> => queue.event_logs = LogPaths
          /\ ConfiguredWith(Configuration(queue.event_logs, queue.event_logs,
                                          DagBatchNames, conditions, BATCH_NAME),
                            FALSE, TRUE, queue.dagman_clusters_to_path)
    /\ feed = AnyEventOf(TwoJobs)
    /\ NotStarted

SpecDag == InitDag /\ [][Next]_vars

-----------------------------------------------------------------------------

(* make_progress_bar alone, over every totals vector and terminal width *)

\* a totals vector: any count of every status, TOTAL their sum
BarTotals ==
    {[h \in JobStatus \cup {TOTAL} |-> IF h = TOTAL THEN SumOver(counts, JobStatus)
                                                     ELSE counts[h]] :
        counts \in [JobStatus -> 0..MaxCount]}

InitBar ==
    /\ pc = "bar"
    /\ Configured(Configuration(OneLog, OneLog, NoBatchNames, <<>>, BATCH_NAME))
    /\ feed = AnyEventOf(TwoJobs)
    /\ NoTracker
    /\ totals \in BarTotals
    /\ terminal_columns \in BarColumns
    /\ headers = <<>>
    /\ stripped = <<>>
    /\ rows = <<>>
    /\ bar = <<>>
    /\ strip = 0
    /\ summary = ""
    /\ table = <<>>

\* make_progress_bar(totals, width=terminal_columns)
MakeBar ==
    /\ pc = "bar"
    /\ bar' = make_progress_bar(totals, terminal_columns)
    /\ pc' = "bar_done"
    /\ UNCHANGED <<config, tracker, locals, totals, headers, stripped, rows,
                   terminal_columns, strip, summary, table, exit_status, announced, feed,
                   history>>
    /\ UNCHANGED <<warnings, screen>>

NextBar == MakeBar

SpecBar == InitBar /\ [][NextBar]_vars

----------------------------------------------------------------------------
(* make_summary_with_totals, one iteration of its loop at a time, and         *)
(* make_summary_with_percentages, over totals vectors and terminal widths     *)

\* a totals vector of the summary statuses, TOTAL their sum
SummaryTotals ==
    {[h \in JobStatus \cup {TOTAL} |->
         IF h = TOTAL THEN counts[1] + counts[2] + counts[3] + counts[4] + counts[5] + counts[6]
         ELSE IF h = "TRANSFERRING_OUTPUT" THEN 0
         ELSE counts[CHOOSE i \in 1..6 : SUMMARY_STATES[i] = h]] :
        counts \in [1..6 -> SummaryCounts]}

InitSummary ==
    /\ pc \in {"summary", "percentages"}
    /\ Configured(Configuration(OneLog, OneLog, NoBatchNames, <<>>, BATCH_NAME))
    /\ feed = AnyEventOf(TwoJobs)
    /\ NoTracker
    /\ totals \in SummaryTotals
    /\ terminal_columns \in SummaryColumns
    /\ headers = <<>>
    /\ stripped = <<>>
    /\ rows = <<>>
    /\ bar = <<>>
    /\ strip = 11
    /\ summary = ""
    /\ table = <<>>

\* one iteration of the while loop of make_summary_with_totals that only
\* breaks at the floor
SummaryIteration_FloorOnly ==
    /\ pc = "summary"
    /\ strip' = strip - 1
    /\ summary' = SummaryWithTotalsAt(totals, strip')
    /\ pc' = IF strip' <= 2 THEN "summary_done" ELSE "summary"
    /\ UNCHANGED <<config, tracker, locals, totals, headers, stripped, rows,
                   terminal_columns, bar, table, exit_status, announced, feed, history>>
    /\ UNCHANGED <<warnings, screen>>

\* one iteration of the while loop of make_summary_with_totals
SummaryIteration ==
    /\ pc = "summary"
    /\ strip' = strip - 1
    /\ summary' = SummaryWithTotalsAt(totals, strip')
    /\ pc' = IF Len(summary') <= terminal_columns \/ strip' <= 2
             THEN "summary_done"
             ELSE "summary"
    /\ UNCHANGED <<config, tracker, locals, totals, headers, stripped, rows,
                   terminal_columns, bar, table, exit_status, announced, feed, history>>
    /\ UNCHANGED <<warnings, screen>>

\* make_summary_with_percentages(totals, width=terminal_columns)
MakePercentages ==
    /\ pc = "percentages"
    /\ summary' = make_summary_with_percentages(totals, terminal_columns)
    /\ pc' = "percentages_done"
    /\ UNCHANGED <<config, tracker, locals, totals, headers, stripped, rows,
                   terminal_columns, bar, strip, table, exit_status, announced, feed,
                   history>>
    /\ UNCHANGED <<warnings, screen>>

NextSummary == SummaryIteration \/ MakePercentages

\* the loop is straight-line code: an iteration that can run does run
SpecSummary == InitSummary /\ [][NextSummary]_vars /\ WF_vars(NextSummary)

----------------------------------------------------------------------------
(* Properties *)

\* the status the tracker holds for a job, None when it holds none
StatusOf(clusters, job) ==
    LET i == ClusterIndex(clusters, job[1])
    IN  IF i = 0 THEN None
        ELSE IF job[2] \in DOMAIN clusters[i].job_to_state
             THEN clusters[i].job_to_state[job[2]]
             ELSE None

JobOf(ev) == <<ev.cluster, ev.proc>>

\* a block has been aggregated in this tick
Shown == pc \in {"erase", "emit", "print", "check", "sleep"}

\* process_events has returned and the tracker is alive
Processed ==
    \/ Shown
    \/ pc = "process" /\ reader_idx > Len(event_readers)

\* the jobs a status-mapped event has referred to
MappedJobs == {j \in JobIds : last_mapped[j] # None}

\* Totals[TOTAL] of make_rows_from_groups under the grouping k
TotalOfGrouping(k) ==
    make_rows_from_groups(group_clusters_by_key(cluster_id_to_cluster, k), k).totals[TOTAL]

\* C1 as stated: in every aggregated block Totals[TOTAL] is the number of
\* distinct (cluster, proc) pairs the events read so far referred to.
C1_TotalIsReferencedJobs ==
    Shown => totals[TOTAL] = Cardinality(referenced)

\* C1 amended: in every aggregated block, and under each of the three
\* groupings, Totals[TOTAL] is the number of distinct (cluster, proc) pairs
\* that events with a mapped status referred to (a set, so it is independent
\* of the order of the events).
C1_TotalIsMappedJobs ==
    /\ Shown => totals[TOTAL] = Cardinality(MappedJobs)
    /\ Processed => \A k \in GroupKeys : TotalOfGrouping(k) = Cardinality(MappedJobs)

\* a block whose total is 2 although the events referred to 3 jobs
C1_Witness ==
    Shown /\ totals[TOTAL] = 2 /\ Cardinality(referenced) = 3

\* the status the table of the specification gives an event kind
C2_Expected(type) ==
    CASE type \in {"SUBMIT", "JOB_EVICTED", "JOB_UNSUSPENDED", "JOB_RELEASED",
                   "SHADOW_EXCEPTION", "JOB_RECONNECT_FAILED"} -> "IDLE"
      [] type = "EXECUTE" -> "RUNNING"
      [] type = "JOB_HELD" -> "HELD"
      [] type = "JOB_SUSPENDED" -> "SUSPENDED"
      [] type = "JOB_TERMINATED" -> "COMPLETED"
      [] type = "JOB_ABORTED" -> "REMOVED"
      [] OTHER -> None

\* C2: every step of process_events that applies an event leaves the job of
\* the event in the status the fixed table gives its kind, and leaves the
\* tracker as it was when the kind has no entry.
C2_TransitionTable ==
    [][\A ev \in LogEvents :
          ReadEventOf(ev) =>
              IF C2_Expected(ev.type) = None
              THEN cluster_id_to_cluster' = cluster_id_to_cluster
              ELSE StatusOf(cluster_id_to_cluster', JobOf(ev)) = C2_Expected(ev.type)]_vars

\* the three jobs are HELD, SUSPENDED and REMOVED
C2_Witness ==
    /\ pc = "process"
    /\ {StatusOf(cluster_id_to_cluster, j) : j \in JobIds} = {"HELD", "SUSPENDED", "REMOVED"}

\* C3: the status of every job is the table status of the last status-mapped
\* event read for it, whatever its status was before; a job no such event
\* referred to has no status.
C3_LastWriterWins ==
    \A j \in JobIds : StatusOf(cluster_id_to_cluster, j) = last_mapped[j]

\* the event logs held a terminal event of a job and then its SUBMIT, both
\* were read, and the job is IDLE
C3_Witness ==
    /\ feed.script \in RevivalScripts
    /\ feed.pos = 3
    /\ pc = "process"
    /\ StatusOf(cluster_id_to_cluster, JobOf(feed.script[2])) = "IDLE"

TerminalEvents == {ev \in LogEvents : ev.type \in {"JOB_TERMINATED", "JOB_ABORTED"}}

\* the tracker after the reader r yields ev
Applied(clusters, r, ev) == ApplyEvent(clusters, batch_names, event_readers[r], ev)

\* C4: in every state process_events runs in, applying a terminal event a second time
\* right after the first leaves every cluster, job and status as the first
\* application left them.
C4_TerminalIdempotent ==
    pc = "process" => \A ev \in TerminalEvents : \A r1, r2 \in 1..Len(event_readers) :
        Applied(Applied(cluster_id_to_cluster, r1, ev), r2, ev)
            = Applied(cluster_id_to_cluster, r1, ev)

\* the event logs held the same terminal event twice, both were read, and the
\* tracker is what one application to the fresh tracker gives
C4_Witness ==
    /\ feed.script \in RepeatScripts
    /\ feed.pos = 3
    /\ pc = "process"
    /\ \E r \in 1..Len(event_readers) :
          cluster_id_to_cluster = Applied(<<>>, r, feed.script[1])

\* a condition read over the jobs of the tracker: all means every job
\* satisfies the check, any at least one, none not one
C5_Satisfied(condition) ==
    LET jobs == TrackedJobs(cluster_id_to_cluster)
        ok(j) == EXIT_JOB_STATUS_CHECK(condition[2], StatusOf(cluster_id_to_cluster, j))
    IN  CASE condition[1] = "all" -> \A j \in jobs : ok(j)
          [] condition[1] = "any" -> \E j \in jobs : ok(j)
          [] condition[1] = "none" -> \A j \in jobs : ~ok(j)

\* C5: the exit check of a tick ends the process with the exit code of the
\* first configured condition that is satisfied, announcing that condition,
\* and goes on to sleep only when no condition is satisfied; a process that
\* has exited takes no further step.
C5_ExitOnCondition ==
    /\ [][CheckExit =>
            LET sat == {i \in 1..Len(exit_conditions) : C5_Satisfied(exit_conditions[i])}
            IN  IF sat = {}
                THEN pc' = "sleep" /\ exit_status' = <<>>
                ELSE /\ pc' = "done"
                     /\ \E i \in sat :
                          /\ \A k \in sat : i <= k
                          /\ exit_status' = <<exit_conditions[i][3]>>
                          /\ announced' = <<exit_conditions[i][1], exit_conditions[i][2]>>]_vars
    /\ [][pc # "done"]_vars

\* the process exited on "all done" with two jobs, both COMPLETED
C5_Witness ==
    /\ pc = "done"
    /\ announced = <<"all", "done">>
    /\ exit_status = <<0>>
    /\ totals["COMPLETED"] = 2
    /\ totals[TOTAL] = 2

\* the totals of the scenario
ScenarioTotals ==
    [h \in JobStatus \cup {TOTAL} |->
        IF h = TOTAL THEN 3 ELSE IF h \in {"IDLE", "RUNNING", "HELD"} THEN 1 ELSE 0]

\* C6: once SUBMIT, SUBMIT, SUBMIT, EXECUTE, JOB_HELD have been read, one job
\* is IDLE, the job of EXECUTE is RUNNING and the job of JOB_HELD is HELD, the
\* totals are IDLE 1, RUNNING 1, HELD 1, TOTAL 3 and 0 elsewhere, and with
\* any,held,1 configured the process exits with code 1 in the tick that read
\* JOB_HELD: it never sleeps after it, and never exits with 1 before it.
C6_Scenario ==
    feed.script \in ScenarioScripts =>
        /\ (feed.pos = 6 /\ pc # "done") =>
              /\ StatusOf(cluster_id_to_cluster, JobOf(feed.script[4])) = "RUNNING"
              /\ StatusOf(cluster_id_to_cluster, JobOf(feed.script[5])) = "HELD"
              /\ \A j \in JobIds \ {JobOf(feed.script[4]), JobOf(feed.script[5])} :
                    StatusOf(cluster_id_to_cluster, j) = "IDLE"
        /\ (feed.pos = 6 /\ Shown) => totals = ScenarioTotals
        /\ (feed.pos = 6 /\ exit_conditions = AnyHeldExits) => pc # "sleep"
        /\ exit_status = <<1>> =>
              /\ exit_conditions = AnyHeldExits
              /\ announced = <<"any", "held">>
              /\ totals = ScenarioTotals

\* the scenario ran with any,held,1 and the process exited with code 1
C6_Witness ==
    /\ feed.script \in ScenarioScripts
    /\ pc = "done"
    /\ exit_status = <<1>>
    /\ totals = ScenarioTotals

\* C7: with no event log found the process exits with code 0 straight from
\* the start: no tracker is built, no tick runs, nothing is read or shown.
C7_NoSourcesExit ==
    event_logs = {} =>
        /\ pc \in {"start", "done"}
        /\ pc = "done" => exit_status = <<0>>
        /\ event_readers = <<>>
        /\ cluster_id_to_cluster = <<>>
        /\ referenced = {}
        /\ messages = 0
        /\ NoRender
        /\ announced = <<>>

\* a run without event logs has exited with code 0
C7_Witness ==
    event_logs = {} /\ pc = "done" /\ exit_status = <<0>> /\ exit_conditions # <<>>

\* n is what truncation towards zero makes of the binary64 product of width
\* and count / total
C8_IsTruncatedShare(n, width, count, total) ==
    IF count = 0 \/ total = 0 THEN n = 0
    ELSE LET m == IF <<width, count, total>> \in FloatRoundsBelow THEN n + 1 ELSE n
         IN  IF width >= 0
             THEN m >= 0 /\ m * total <= width * count /\ width * count < (m + 1) * total
             ELSE m <= 0 /\ (-m) * total <= (-width) * count
                         /\ (-width) * count < ((-m) + 1) * total

C8_Width == (IF terminal_columns <= 79 THEN terminal_columns ELSE 79) - 2

\* the whole numbers next to the exact share, the candidates for a truncated share
C8_Near(width, count, total) ==
    LET q == ((IF width >= 0 THEN width ELSE -width) * count)
                 \div (IF total = 0 THEN 1 ELSE total)
    IN  {q - 1, q, -q, 1 - q}

\* the truncated share of every section
C8_Shares ==
    [i \in 1..6 |->
        CHOOSE n \in C8_Near(C8_Width, totals[PROGRESS_BAR_ORDER[i]], totals[TOTAL]) :
            C8_IsTruncatedShare(n, C8_Width, totals[PROGRESS_BAR_ORDER[i]], totals[TOTAL])]

\* C8: the six section lengths sum to min(width, 79) - 2; every section but
\* the first of the longest ones is the truncated share of its status, and
\* that one is its truncated share plus the whole rounded-off remainder.
C8_BarSumsToWidth ==
    pc = "bar_done" =>
        LET share == C8_Shares
        IN  /\ Len(bar) = 6
            /\ bar[1] + bar[2] + bar[3] + bar[4] + bar[5] + bar[6] = C8_Width
            /\ \A i \in 1..6 :
                  C8_IsTruncatedShare(share[i], C8_Width,
                                      totals[PROGRESS_BAR_ORDER[i]], totals[TOTAL])
            /\ \E longest \in 1..6 :
                  /\ \A i \in 1..6 : share[i] <= share[longest]
                  /\ \A i \in 1..(longest - 1) : share[i] < share[longest]
                  /\ \A i \in (1..6) \ {longest} : bar[i] = share[i]
                  /\ bar[longest] = share[longest]
                        + (C8_Width - (share[1] + share[2] + share[3]
                                       + share[4] + share[5] + share[6]))

\* one of three jobs COMPLETED, one RUNNING and one TRANSFERRING_OUTPUT on a
\* terminal wider than the cap: of the 77 columns each share is 25 and the
\* remaining 27 went to the first of the two
C8_Witness ==
    /\ pc = "bar_done"
    /\ terminal_columns = 120
    /\ totals["TRANSFERRING_OUTPUT"] = 1
    /\ totals["COMPLETED"] = 1
    /\ totals["RUNNING"] = 1
    /\ totals[TOTAL] = 3
    /\ bar = <<52, 25, 0, 0, 0, 0>>

\* the number of jobs in status h of the group shown under value
C9_GroupCount(value, h) ==
    Cardinality({j \in JobIds :
        /\ StatusOf(cluster_id_to_cluster, j) = h
        /\ getter(key, cluster_id_to_cluster[ClusterIndex(cluster_id_to_cluster, j[1])])
              = value})

C9_Omitted(h) ==
    /\ \A n \in 1..Len(headers) : headers[n] # h
    /\ \A i \in 1..Len(stripped) : h \notin DOMAIN stripped[i].row

C9_Kept(h) ==
    /\ \E n \in 1..Len(headers) : headers[n] = h
    /\ \A i \in 1..Len(stripped) : h \in DOMAIN stripped[i].row

\* C9: in every aggregated block a status column is missing from the headers
\* and from every row when no displayed group has a job in that status and
\* the status is not IDLE, RUNNING or COMPLETED; otherwise it is in the
\* headers and in every row, with the count of its group.  TOTAL, the key
\* column and the active jobs column are in every row.
C9_ColumnPruning ==
    Shown =>
        /\ \A h \in JobStatus :
              IF (\A i \in 1..Len(stripped) : C9_GroupCount(stripped[i].value, h) = 0)
                 /\ h \notin {"IDLE", "RUNNING", "COMPLETED", TOTAL}
              THEN C9_Omitted(h)
              ELSE /\ C9_Kept(h)
                   /\ \A i \in 1..Len(stripped) :
                         stripped[i].row[h] = C9_GroupCount(stripped[i].value, h)
        /\ \A i \in 1..Len(stripped) : {TOTAL, key, ACTIVE_JOBS} \subseteq DOMAIN stripped[i].row
        /\ \E n \in 1..Len(headers) : headers[n] = TOTAL

\* two groups are shown; HELD is a column although one group has no HELD job,
\* SUSPENDED is not a column
C9_Witness ==
    /\ Shown
    /\ Len(stripped) = 2
    /\ C9_Kept("HELD")
    /\ \E i \in 1..2 : stripped[i].row["HELD"] = 0
    /\ C9_Omitted("SUSPENDED")
    /\ C9_Omitted("REMOVED")

\* the smallest cluster id among the clusters of the tracker shown under value
C10_MinClusterId(value) ==
    LET ids == {cluster_id_to_cluster[i].cluster_id :
                   i \in {n \in 1..Len(cluster_id_to_cluster) :
                             getter(key, cluster_id_to_cluster[n]) = value}}
    IN  CHOOSE c \in ids : \A d \in ids : c <= d

\* C10: in every aggregated block there is one row for each group, and of two
\* rows the one whose group holds the smaller minimum cluster id comes first.
C10_RowsByMinClusterId ==
    Shown =>
        /\ {rows[i].value : i \in 1..Len(rows)}
              = {getter(key, cluster_id_to_cluster[n]) : n \in 1..Len(cluster_id_to_cluster)}
        /\ \A i, j \in 1..Len(rows) :
              i < j => C10_MinClusterId(rows[i].value) < C10_MinClusterId(rows[j].value)

\* grouped by batch name, cluster 10 was created first and is named "a",
\* cluster 2 is named "z", and the row of "z" comes first
C10_Witness ==
    /\ Shown
    /\ key = BATCH_NAME
    /\ Len(cluster_id_to_cluster) = 2
    /\ cluster_id_to_cluster[1].cluster_id = 10
    /\ Len(rows) = 2
    /\ rows[1].value = "z"
    /\ rows[2].value = "a"

\* the jobs with a status in ACTIVE of the group shown under value
C11_ActiveJobs(value) ==
    {j \in JobIds :
        /\ StatusOf(cluster_id_to_cluster, j) \in
              {"IDLE", "RUNNING", "TRANSFERRING_OUTPUT", "HELD", "SUSPENDED"}
        /\ getter(key, cluster_id_to_cluster[ClusterIndex(cluster_id_to_cluster, j[1])])
              = value}

\* (cluster id, proc id) of x before that of y as numbers
C11_NumericLess(x, y) == x[1] < y[1] \/ (x[1] = y[1] /\ x[2] < y[2])

\* the ids of a set of jobs in numeric order
RECURSIVE C11_NumericOrder(_)
C11_NumericOrder(ids) ==
    IF ids = {} THEN <<>>
    ELSE LET first == CHOOSE x \in ids : \A y \in ids \ {x} : C11_NumericLess(x, y)
         IN  <<first>> \o C11_NumericOrder(ids \ {first})

\* the text C11 expects for a set of active jobs
C11_Expected(ids) ==
    LET sorted_ids == C11_NumericOrder(ids)
        n == Len(sorted_ids)
        text(i) == ToString(sorted_ids[i][1]) \o "." \o ToString(sorted_ids[i][2])
    IN  CASE n = 0 -> ""
          [] n = 1 -> text(1)
          [] n = 2 -> text(1) \o ", " \o text(2)
          [] OTHER -> text(1) \o " ... " \o text(n)

\* C11 as stated: in every aggregated block the active jobs value of every
\* row lists the ids of exactly the jobs of its group with a status in ACTIVE,
\* in numeric (cluster id, proc id) order, joined with ", ", or as
\* "<smallest> ... <largest>" when there are more than two.
C11_ActiveJobsNumericOrder ==
    Shown => \A i \in 1..Len(stripped) :
                stripped[i].row[ACTIVE_JOBS] = C11_Expected(C11_ActiveJobs(stripped[i].value))

\* sub occurs in text
C12_Contains(text, sub) ==
    \E i \in 1..(Len(text) - Len(sub) + 1) : SubSeq(text, i, i + Len(sub) - 1) = sub

\* the number of decimal digits of n >= 0
C12_Width(n) == IF n < 10 THEN 1 ELSE IF n < 100 THEN 2 ELSE IF n < 1000 THEN 3 ELSE 4

\* the length of the totals summary with labels cut to n characters:
\* "Total: <N> jobs; " and "<count> <label>" for every status with a count,
\* joined by ", "
C12_Length(n) ==
    LET with_count == {i \in 1..6 : totals[SUMMARY_STATES[i]] > 0}
        cut(i) == IF Len(SUMMARY_MESSAGES[i]) < n THEN Len(SUMMARY_MESSAGES[i]) ELSE n
        len(i) == IF i \in with_count
                  THEN C12_Width(totals[SUMMARY_STATES[i]]) + 1 + cut(i) ELSE 0
    IN  14 + C12_Width(totals[TOTAL])
           + len(1) + len(2) + len(3) + len(4) + len(5) + len(6)
           + (IF with_count = {} THEN 0 ELSE 2 * (Cardinality(with_count) - 1))

\* the first n characters of the label of the i-th summary status
C12_Label(i, n) ==
    SubSeq(SUMMARY_MESSAGES[i], 1,
           IF Len(SUMMARY_MESSAGES[i]) < n THEN Len(SUMMARY_MESSAGES[i]) ELSE n)

\* the state of the loop of make_summary_with_totals and of its result
C12_LoopState ==
    /\ pc = "summary" =>
          /\ strip \in 3..11
          /\ \A n \in strip..10 : C12_Length(n) > terminal_columns
    /\ pc = "summary_done" =>
          /\ strip \in 2..10
          /\ Len(summary) = C12_Length(strip)
          /\ Len(summary) <= terminal_columns \/ strip = 2
          /\ \A n \in (strip + 1)..10 : C12_Length(n) > terminal_columns
          /\ \A i \in 1..6 :
                IF totals[SUMMARY_STATES[i]] > 0
                THEN C12_Contains(summary,
                                  " " \o ToString(totals[SUMMARY_STATES[i]]) \o " "
                                      \o C12_Label(i, strip))
                ELSE ~C12_Contains(summary, " " \o C12_Label(i, 2))

\* C12: make_summary_with_totals tries the label lengths 10, 9, ..., 2 in
\* that order, one per iteration, and returns the summary of the first length
\* that fits the width, or that of length 2 when none fits; the loop always
\* ends; statuses without jobs are left out; the result fits the width or has
\* labels of 2 characters.
C12_TotalsSummaryShortens ==
    /\ []C12_LoopState
    /\ [][SummaryIteration => strip' = strip - 1]_vars
    /\ (pc = "summary") ~> (pc = "summary_done")

\* 1000 completed jobs and 1 idle job at width 20: the labels went down to
\* the floor of 2 characters and the summary is still wider than 20
C12_Witness ==
    /\ pc = "summary_done"
    /\ terminal_columns = 20
    /\ strip = 2
    /\ summary = "Total: 1001 jobs; 1000 co, 1 id"

\* C13 as stated: make_summary_with_percentages returns the summary with
\* single-letter labels when the summary with full labels is longer than the
\* width, and the summary with full labels otherwise.
C13_PercentagesDegrade ==
    pc = "percentages_done" =>
        LET full == SummaryWithPercentages(totals, FALSE)
        IN  summary = IF Len(full) > terminal_columns
                      THEN SummaryWithPercentages(totals, TRUE)
                      ELSE full

\* the rows make_rows_from_groups returns for the tracker, before pruning
C14_Rows ==
    make_rows_from_groups(group_clusters_by_key(cluster_id_to_cluster, key), key).rows

\* the sum of column h over the first n rows
RECURSIVE C14_ColumnSum(_, _, _)
C14_ColumnSum(row_seq, h, n) ==
    IF n = 0 THEN 0 ELSE row_seq[n].row[h] + C14_ColumnSum(row_seq, h, n - 1)

\* the sum of the seven status counts of a row or of the totals
C14_StatusSum(row) ==
    row["REMOVED"] + row["HELD"] + row["SUSPENDED"] + row["IDLE"] + row["RUNNING"]
        + row["TRANSFERRING_OUTPUT"] + row["COMPLETED"]

\* C14: in every aggregated block every entry of the totals is the sum of
\* that column over the rows make_rows_from_groups built (a column that
\* pruning removed from the rows was zero in all of them), the TOTAL of the
\* totals is the sum of its seven status counts, and so is the TOTAL of
\* every row.
C14_TotalsAreColumnSums ==
    Shown =>
        LET made_rows == C14_Rows
        IN  /\ \A h \in JobStatus \cup {TOTAL} :
                  /\ totals[h] = C14_ColumnSum(made_rows, h, Len(made_rows))
                  /\ \A i \in 1..Len(stripped) :
                        IF h \in DOMAIN stripped[i].row
                        THEN stripped[i].row[h] = made_rows[i].row[h]
                        ELSE made_rows[i].row[h] = 0
            /\ Len(stripped) = Len(made_rows)
            /\ totals[TOTAL] = C14_StatusSum(totals)
            /\ \A i \in 1..Len(made_rows) :
                  made_rows[i].row[TOTAL] = C14_StatusSum(made_rows[i].row)

\* two rows, one with two jobs and one with one; two of the three jobs HELD,
\* one in each row
C14_Witness ==
    /\ Shown
    /\ Len(stripped) = 2
    /\ totals[TOTAL] = 3
    /\ totals["HELD"] = 2
    /\ \A i \in 1..2 : stripped[i].row["HELD"] = 1
    /\ \E i \in 1..2 : stripped[i].row[TOTAL] = 2

\* the cluster ids of the tracker, in the order the clusters were created
C15_ClusterIds(clusters) == [i \in 1..Len(clusters) |-> clusters[i].cluster_id]

\* C15: while the process runs no step removes a job or a cluster from the
\* tracker (the clusters created stay, in their order, and every tracked
\* job stays tracked), and the TOTAL of every aggregated block is the number
\* of tracked jobs, so it never decreases from one tick to the next.
C15_TrackedJobsNeverDecrease ==
    /\ [](Shown => totals[TOTAL] = Cardinality(TrackedJobs(cluster_id_to_cluster)))
    /\ [][pc' # "done" =>
            /\ TrackedJobs(cluster_id_to_cluster) \subseteq TrackedJobs(cluster_id_to_cluster')
            /\ Len(cluster_id_to_cluster) <= Len(cluster_id_to_cluster')
            /\ C15_ClusterIds(cluster_id_to_cluster)
                  = SubSeq(C15_ClusterIds(cluster_id_to_cluster'), 1, Len(cluster_id_to_cluster))
       ]_vars

\* a later tick begins (the first of two readers is up again) with a cluster
\* that came from the second reader, and with a job that has been REMOVED
\* still tracked
C15_Witness ==
    /\ pc = "process"
    /\ Len(event_readers) = 2
    /\ reader_idx = 1
    /\ \E i \in 1..Len(cluster_id_to_cluster) :
          cluster_id_to_cluster[i].event_log_path = event_readers[2]
    /\ \E j \in TrackedJobs(cluster_id_to_cluster) :
          StatusOf(cluster_id_to_cluster, j) = "REMOVED"
    /\ Cardinality(TrackedJobs(cluster_id_to_cluster)) = 2

\* C16: a step of process_events that reads an event whose kind has no
\* mapped status leaves the tracker as it was, clusters, jobs and statuses,
\* whether or not the cluster or the job of the event is tracked.
C16_UnmappedEventIgnored ==
    [][\A ev \in {e \in LogEvents : e.type \in {"IMAGE_SIZE", "JOB_AD_INFORMATION"}} :
          ReadEventOf(ev) => cluster_id_to_cluster' = cluster_id_to_cluster]_vars

\* events without a mapped status were read for a job of each cluster and
\* the tracker holds no cluster
C16_Witness ==
    /\ pc = "process"
    /\ {j[1] : j \in referenced} = ClusterIds
    /\ cluster_id_to_cluster = <<>>

\* C17: a step of process_events in which a read fails adds exactly one
\* diagnostic to the list, changes no cluster and no job status, and leaves
\* the loop at the same reader, whose next event is read next; the process
\* keeps running.
C17_ParseErrorCollected ==
    [][messages' > messages =>
          /\ messages' = messages + 1
          /\ cluster_id_to_cluster' = cluster_id_to_cluster
          /\ event_readers' = event_readers
          /\ reader_idx' = reader_idx
          /\ reader_idx' \in 1..Len(event_readers')
          /\ pc' = "process"
          /\ exit_status' = <<>>]_vars

\* a tick in which a read failed went on to aggregate two jobs, one read
\* from each of the two event logs
C17_Witness ==
    /\ Shown
    /\ messages = 1
    /\ Len(event_readers) = 2
    /\ totals[TOTAL] = 2
    /\ {cluster_id_to_cluster[i].event_log_path : i \in 1..Len(cluster_id_to_cluster)}
          = LogPaths

\* C18: once the tracker is constructed its readers are exactly the event
\* logs that opened, each once, there is one warning for each event log that
\* did not open, and at no time is the reader in turn, or the event log of a
\* cluster, an event log that did not open.
C18_FailedSourceExcluded ==
    pc \notin {"start", "done"} =>
        /\ {event_readers[i] : i \in 1..Len(event_readers)} = event_logs \cap openable
        /\ Len(event_readers) = Cardinality(event_logs \cap openable)
        /\ DOMAIN warnings = event_logs \ openable
        /\ \A path \in DOMAIN warnings : warnings[path] = 1
        /\ Reading => event_readers[reader_idx] \in openable
        /\ \A i \in 1..Len(cluster_id_to_cluster) :
              cluster_id_to_cluster[i].event_log_path \in openable

\* one of two event logs did not open; both clusters were read from the other
C18_Witness ==
    /\ Shown
    /\ Cardinality(event_logs) = 2
    /\ Cardinality(openable) = 1
    /\ Len(event_readers) = 1
    /\ Len(cluster_id_to_cluster) = 2

\* C19: every call of process_events terminates. While the call runs, the
\* reader at hand can always report that no event is ready (the call does not
\* wait); the call moves from a reader to the next one only, never back; a
\* failure to parse leaves it at the same reader; and every call that reads
\* comes to the point where all readers have been read.
C19_ProcessEventsTerminates ==
    /\ [](Reading => ENABLED ReadStop)
    /\ [][pc = "process" /\ pc' = "process" /\ reader_idx' # reader_idx =>
             reader_idx' = reader_idx + 1]_vars
    /\ [][messages' > messages => Reading' /\ reader_idx' = reader_idx]_vars
    /\ Reading ~> ~Reading

\* process_events has returned after reading two event logs, with a failure to
\* parse on the way
C19_Witness ==
    /\ pc = "process"
    /\ Len(event_readers) = 2
    /\ reader_idx = 3
    /\ messages = 1
    /\ Len(cluster_id_to_cluster) = 2

C20_InLoop == pc \in {"process", "erase", "emit", "print", "check", "sleep"}

\* C20: a KeyboardInterrupt raised at any point of the poll loop (processing
\* events, rendering and printing, evaluating the exit conditions, sleeping)
\* ends the process with exit code 0: at every point of the loop the interrupt
\* can be taken and leads to exit code 0, and every step that ends the process
\* from inside the loop without an exit condition having fired ends it with 0.
C20_InterruptExitsZero ==
    /\ [](C20_InLoop =>
            ENABLED (KeyboardInterrupt /\ pc' = "done" /\ exit_status' = <<0>>))
    /\ [][C20_InLoop /\ pc' = "done" /\ announced' = <<>> =>
             exit_status' = <<0>>]_vars

\* the process was interrupted after a block with two jobs was rendered, in a
\* run with exit conditions of which none had fired
C20_Witness ==
    /\ pc = "done"
    /\ exit_status = <<0>>
    /\ announced = <<>>
    /\ exit_conditions # <<>>
    /\ totals[TOTAL] = 2

\* the steps of a tick, in order
C21_Order ==
    {<<"process", "erase">>, <<"erase", "emit">>, <<"emit", "print">>,
     <<"print", "check">>, <<"check", "sleep">>, <<"sleep", "process">>}

\* the positions between the aggregation and the evaluation of the exit conditions
C21_Rendered == pc \in {"erase", "emit", "print", "check"}

\* the number of jobs the tracker holds in the given status
C21_JobsIn(status) ==
    LET states == job_states(cluster_id_to_cluster)
    IN  Cardinality({i \in 1..Len(states) : states[i] = status})

\* what a tick has written once its block is printed: the erasure of the
\* previous block (refresh mode only), the diagnostics, the block
C21_Written ==
    (IF move # 0 THEN <<"erase">> ELSE <<>>)
        \o (IF messages > 0 THEN <<"diagnostics">> ELSE <<>>)
        \o <<"block">>

C22_Records(what) == {i \in 1..Len(written) : written[i][2] = what}

\* C22: the diagnostics process_events returned in a tick are written to
\* stderr in that tick, all of them and once, before the block is printed and
\* so before an exit condition can fire; nothing written to stdout holds a
\* diagnostic; the printed block has the lines of msg, which do not depend on
\* the diagnostics; and the erasure goes up by the lines of the block printed
\* in the tick before.
C22_DiagnosticsOnSideChannel ==
    /\ [](pc \in {"print", "check", "sleep"} =>
             /\ Cardinality(C22_Records("diagnostics")) = (IF messages > 0 THEN 1 ELSE 0)
             /\ \A i \in C22_Records("diagnostics") :
                   written[i] = <<"stderr", "diagnostics", messages>>)
    /\ [](\A i \in 1..Len(written) :
             /\ written[i][2] = "diagnostics" <=> written[i][1] = "stderr"
             /\ written[i][2] = "block" =>
                   written[i][3] \in {MsgLines(Len(rows), r, refresh, exit_conditions) :
                                         r \in TerminalRows})
    /\ [][pc = "check" /\ pc' = "done" /\ announced' # <<>> =>
             /\ messages > 0 => C22_Records("diagnostics") # {}
             /\ written' = Append(written, <<"stdout", "exit", 1>>)]_vars
    /\ [][pc = "print" /\ pc' = "check" =>
             written' = Append(written, <<"stdout", "block", msg_lines>>)]_vars
    /\ [][(pc \in {"check", "sleep"}) /\ refresh /\ pc' # "done" =>
             msg_lines' = msg_lines]_vars
    /\ [][pc = "process" /\ pc' = "erase" /\ refresh /\ msg_lines # 0 =>
             move' = msg_lines]_vars
    /\ [][pc = "erase" /\ pc' = "emit" =>
             written' = IF move # 0 THEN <<<<"stdout", "erase", move>>>> ELSE <<>>]_vars

\* an exit condition fired in a tick that erased a block of one row, emitted
\* a diagnostic and printed a block of two rows
C22_Witness ==
    /\ pc = "done"
    /\ announced # <<>>
    /\ Len(written) = 4
    /\ written[1] = <<"stdout", "erase", MsgLines(1, 24, TRUE, exit_conditions)>>
    /\ written[2] = <<"stderr", "diagnostics", 1>>
    /\ written[3] = <<"stdout", "block", MsgLines(2, 24, TRUE, exit_conditions)>>
    /\ written[4] = <<"stdout", "exit", 1>>

-----------------------------------------------------------------------------
(* C23 *)

\* the number of visible characters of a line: its length without the color
\* escape sequences
VisibleLen(line) == Len(strip_ansi(line))

\* C23: no line returned by make_table, header or row, is longer than
\* terminal_columns visible characters, with or without row progress bars
C23_LinesFitTerminal ==
    pc = "table_done" =>
        \A i \in 1..Len(table) : VisibleLen(table[i]) <= terminal_columns

\* what make_table does keep: every line after the header fits the terminal
C23_RowsFitTerminal ==
    pc = "table_done" =>
        \A i \in 2..Len(table) : VisibleLen(table[i]) <= terminal_columns

\* the header is the one line that can be longer than the terminal
C23_HeaderTooLong ==
    /\ pc = "table_done"
    /\ Len(table) > 1
    /\ VisibleLen(table[1]) > terminal_columns

-----------------------------------------------------------------------------
(* C24 *)

\* the groups the block on screen was made from: the tracker does not change
\* between the aggregation and the next tick
C24_Groups == group_clusters_by_key(cluster_id_to_cluster, key)

\* the places <<group, position>> where a cluster is found in the groups
C24_PlacesOf(groups, cluster) ==
    {<<i, j>> \in (1..Len(groups)) \X (1..Len(cluster_id_to_cluster)) :
        j <= Len(groups[i].clusters) /\ groups[i].clusters[j] = cluster}

\* C24: group_clusters_by_key partitions the clusters by the grouping key:
\* each cluster is in exactly one group, every cluster of a group has the
\* key value of the group, and clusters with the same key value are in the
\* same group
C24_GroupsPartitionClusters ==
    (Shown /\ ~dag) =>
        LET groups == C24_Groups
        IN  /\ \A n \in 1..Len(cluster_id_to_cluster) :
                  Cardinality(C24_PlacesOf(groups, cluster_id_to_cluster[n])) = 1
            /\ \A i \in 1..Len(groups) :
                  /\ groups[i].clusters # <<>>
                  /\ \A j \in 1..Len(groups[i].clusters) :
                        /\ getter(key, groups[i].clusters[j]) = groups[i].value
                        /\ \E n \in 1..Len(cluster_id_to_cluster) :
                              cluster_id_to_cluster[n] = groups[i].clusters[j]
            /\ \A i, j \in 1..Len(groups) : groups[i].value = groups[j].value => i = j
            /\ Len(stripped) = Len(groups)

\* two clusters with the same batch name are on screen in one group
C24_Witness ==
    /\ Shown
    /\ key = BATCH_NAME
    /\ Len(cluster_id_to_cluster) = 2
    /\ Len(C24_Groups) = 1
    /\ Len(C24_Groups[1].clusters) = 2
    /\ Len(stripped) = 1

-----------------------------------------------------------------------------
(* C25 *)

C25_Ids(clusters) == {clusters[i].cluster_id : i \in 1..Len(clusters)}

\* every cluster id is tracked once, with the event log of one of the readers
\* and the batch name the ads gave for it, and holds at least one job
C25_OneClusterPerId ==
    /\ \A i, j \in 1..Len(cluster_id_to_cluster) :
          cluster_id_to_cluster[i].cluster_id = cluster_id_to_cluster[j].cluster_id => i = j
    /\ \A i \in 1..Len(cluster_id_to_cluster) :
          LET cluster == cluster_id_to_cluster[i]
          IN  /\ \E r \in 1..Len(event_readers) : event_readers[r] = cluster.event_log_path
              /\ cluster.batch_name = batch_names[cluster.cluster_id]
              /\ DOMAIN cluster.job_to_state # {}
              /\ \A p \in DOMAIN cluster.job_to_state :
                    /\ cluster.job_to_state[p] # None
                    /\ last_mapped[<<cluster.cluster_id, p>>] # None
    /\ \A job \in JobIds :
          last_mapped[job] # None =>
              Cardinality({i \in 1..Len(cluster_id_to_cluster) :
                              /\ cluster_id_to_cluster[i].cluster_id = job[1]
                              /\ job[2] \in DOMAIN cluster_id_to_cluster[i].job_to_state}) = 1

\* while the process runs, a cluster that exists keeps its place, its id, its
\* event log and its batch name
C25_ClustersKept ==
    pc' # "done" =>
        /\ Len(cluster_id_to_cluster') >= Len(cluster_id_to_cluster)
        /\ \A i \in 1..Len(cluster_id_to_cluster) :
              /\ cluster_id_to_cluster'[i].cluster_id = cluster_id_to_cluster[i].cluster_id
              /\ cluster_id_to_cluster'[i].event_log_path
                    = cluster_id_to_cluster[i].event_log_path
              /\ cluster_id_to_cluster'[i].batch_name = cluster_id_to_cluster[i].batch_name

\* a cluster appears only when a reader yields a mapped event for a cluster id
\* not tracked yet, with the event log of that reader and that one job
C25_ClusterCreated ==
    Len(cluster_id_to_cluster') > Len(cluster_id_to_cluster) =>
        LET created == cluster_id_to_cluster'[Len(cluster_id_to_cluster')]
        IN  /\ Len(cluster_id_to_cluster') = Len(cluster_id_to_cluster) + 1
            /\ Reading
            /\ created.cluster_id \notin C25_Ids(cluster_id_to_cluster)
            /\ created.event_log_path = event_readers[reader_idx]
            /\ last_source[created.cluster_id] = None
            /\ last_source'[created.cluster_id] = event_readers[reader_idx]
            /\ Cardinality(DOMAIN created.job_to_state) = 1

\* C25: a Cluster is created only by the first status-mapped event for a
\* cluster id not seen before; its event source and its batch name never
\* change afterwards, later events from another source are applied to the
\* existing cluster; every job is in exactly one cluster and every cluster
\* has one source
C25_ClusterIdentity ==
    /\ []C25_OneClusterPerId
    /\ [][C25_ClustersKept /\ C25_ClusterCreated]_vars

\* two clusters created from different event logs, one of them last updated
\* by an event of the event log it was not created from
C25_Witness ==
    /\ Len(cluster_id_to_cluster) = 2
    /\ cluster_id_to_cluster[1].event_log_path # cluster_id_to_cluster[2].event_log_path
    /\ last_source[cluster_id_to_cluster[1].cluster_id]
          = cluster_id_to_cluster[2].event_log_path

-----------------------------------------------------------------------------
(* C26 *)

\* the event log the row on screen is for, and the text shown for it
C26_Path == cluster_id_to_cluster[1].event_log_path
C26_Shown == rows[1].row[EVENT_LOG]

\* the number of characters of a path given by its components
C26_Chars(components) == Len(Join("/", components))

\* the path is below the working directory
C26_BelowCwd == Len(C26_Path) > Len(cwd) /\ SubSeq(C26_Path, 1, Len(cwd)) = cwd

\* the candidates in the order absolute, home-relative, cwd-relative
C26_Candidates ==
    <<(<<"">> \o C26_Path), (<<"~">> \o relpath(C26_Path, home_dir))>> \o
    (IF C26_BelowCwd
     THEN <<(<<".">> \o SubSeq(C26_Path, Len(cwd) + 1, Len(C26_Path)))>>
     ELSE <<>>)

\* C26: nice_path returns the shortest by character length of the absolute
\* path, the path relative to the home directory prefixed with "~", and the
\* path relative to the working directory, offered only when the path does
\* not escape above the working directory; among candidates of the same
\* shortest length it returns the first in that order
C26_ShortestFirstCandidate ==
    (pc = "erase" /\ key = EVENT_LOG /\ Len(cluster_id_to_cluster) = 1) =>
        \E n \in 1..Len(C26_Candidates) :
            /\ C26_Shown = C26_Candidates[n]
            /\ \A m \in 1..Len(C26_Candidates) :
                  C26_Chars(C26_Candidates[n]) <= C26_Chars(C26_Candidates[m])
            /\ \A m \in 1..(n - 1) :
                  C26_Chars(C26_Candidates[m]) > C26_Chars(C26_Candidates[n])

\* the home-relative and the cwd-relative candidate are both the shortest,
\* and the home-relative one is shown
C26_Witness ==
    /\ pc = "erase"
    /\ Len(C26_Candidates) = 3
    /\ C26_Chars(C26_Candidates[2]) = C26_Chars(C26_Candidates[3])
    /\ C26_Chars(C26_Candidates[2]) < C26_Chars(C26_Candidates[1])
    /\ C26_Shown = C26_Candidates[2]

\* the absolute and the home-relative candidate are both the shortest, and
\* the absolute one is shown
C26_AbsoluteTie ==
    /\ pc = "erase"
    /\ C26_Chars(C26_Candidates[1]) = C26_Chars(C26_Candidates[2])
    /\ C26_Shown = C26_Candidates[1]

-----------------------------------------------------------------------------
(* C27 *)

\* the statuses the sections of the progress bar are drawn for
C27_BarStatuses == {"COMPLETED", "RUNNING", "IDLE", "HELD", "SUSPENDED", "REMOVED"}

\* C27: no job of the tracker ever has the status TRANSFERRING_OUTPUT: every
\* status stored is one of IDLE, RUNNING, HELD, SUSPENDED, COMPLETED and
\* REMOVED, so the TRANSFERRING_OUTPUT count of every row and of the totals
\* is 0 and the six statuses of the progress bar add up to Totals[TOTAL]
C27_NoTransferringOutput ==
    /\ \A i \in 1..Len(cluster_id_to_cluster) :
          \A p \in DOMAIN cluster_id_to_cluster[i].job_to_state :
              cluster_id_to_cluster[i].job_to_state[p] \in C27_BarStatuses
    /\ Shown =>
          /\ totals["TRANSFERRING_OUTPUT"] = 0
          /\ \A r \in 1..Len(stripped) : RowGet(stripped[r].row, "TRANSFERRING_OUTPUT") = 0
          /\ "TRANSFERRING_OUTPUT" \notin {headers[h] : h \in 1..Len(headers)}
          /\ SumOver(totals, C27_BarStatuses) = totals[TOTAL]

\* a block for three jobs, among them a suspended and a removed one
C27_Witness ==
    /\ Shown
    /\ totals[TOTAL] = 3
    /\ totals["SUSPENDED"] = 1
    /\ totals["REMOVED"] = 1

-----------------------------------------------------------------------------
(* C28 *)

\* the step of the exit checks that exits on a condition
C28_ExitsOn(groupers) ==
    /\ pc = "check"
    /\ announced = <<>>
    /\ announced' # <<>>
    /\ announced'[1] \in groupers

C28_AnyNeedsJobs ==
    [][C28_ExitsOn({"any"}) => job_states(cluster_id_to_cluster) # <<>>]_vars

\* the process has exited on a condition with all or none with an open event
\* log and a block that shows no job
C28_ExitedWithoutJobs ==
    /\ pc = "done"
    /\ announced # <<>>
    /\ announced[1] \in {"all", "none"}
    /\ openable # {}
    /\ totals[TOTAL] = 0

-----------------------------------------------------------------------------
(* C29 *)

\* the positions of the exit conditions that hold for the tracker
C29_Holding ==
    {i \in 1..Len(exit_conditions) :
        ConditionHolds(exit_conditions[i], cluster_id_to_cluster)}

C29_ExitRecords(output) == {i \in 1..Len(output) : output[i][2] = "exit"}

\* the exit checks of a tick took the first of the conditions that hold, and
\* announced that one only
C29_FirstGivenWins ==
    (pc = "check" /\ C29_Holding # {}) =>
        \E first \in C29_Holding :
            /\ \A i \in C29_Holding : first <= i
            /\ pc' = "done"
            /\ exit_status' = <<exit_conditions[first][3]>>
            /\ announced' = <<exit_conditions[first][1], exit_conditions[first][2]>>
            /\ Cardinality(C29_ExitRecords(written')) = 1

\* C29: when several exit conditions are satisfied in the same tick, the
\* process exits with the exit code of the condition given first on the
\* command line, and no later condition is evaluated or announced
C29_FirstConditionExits ==
    /\ [][CheckExit => C29_FirstGivenWins]_vars
    /\ [](announced # <<>> => Cardinality(C29_ExitRecords(written)) = 1)

\* the process has exited with the code of the second of three conditions
\* while the third held as well: the block shows a job, none of them idle
\* and none held
C29_Witness ==
    /\ pc = "done"
    /\ exit_conditions = <<<<"any", "idle", 3>>, <<"any", "active", 4>>, <<"none", "held", 5>>>>
    /\ exit_status = <<4>>
    /\ announced = <<"any", "active">>
    /\ totals[TOTAL] > 0
    /\ totals["IDLE"] = 0
    /\ totals["HELD"] = 0

-----------------------------------------------------------------------------
(* C30 *)

\* the groups of the block on screen in a run with the dag option
C30_Groups ==
    group_jobs_by_dag(cluster_id_to_cluster, key, dagman_clusters_to_path, batch_names)

\* the number of groups a cluster is in
C30_GroupsOf(cluster) ==
    Cardinality({i \in 1..Len(C30_Groups) :
                    \E j \in 1..Len(C30_Groups[i].clusters) :
                        C30_Groups[i].clusters[j] = cluster})

\* the event log of every tracked cluster is the DAGManNodesLog of an ad
C30_AllRedirected ==
    \A n \in 1..Len(cluster_id_to_cluster) :
        \E i \in 1..Len(dagman_clusters_to_path) :
            dagman_clusters_to_path[i].path = cluster_id_to_cluster[n].event_log_path

\* C30: with the dag option every tracked cluster is in exactly one group of
\* group_jobs_by_dag, named by the batch name of the cluster whose ad gave
\* the DAGManNodesLog the cluster was read from, so that Totals[TOTAL] is the
\* number of jobs the exit conditions are evaluated over in the same tick
C30_DagGroupsCoverTracker ==
    (Shown /\ dag) =>
        /\ \A n \in 1..Len(cluster_id_to_cluster) :
              C30_GroupsOf(cluster_id_to_cluster[n]) = 1
        /\ totals[TOTAL] = Len(job_states(cluster_id_to_cluster))

\* what the code does keep: the clusters read from a DAGManNodesLog are each
\* in one group, named by the batch name of the cluster that gave that log,
\* and the total counts their jobs; it is the number of tracked jobs when
\* every event log is such a log
C30_RedirectedClustersGrouped ==
    (Shown /\ dag) =>
        /\ \A n \in 1..Len(cluster_id_to_cluster) :
              LET cluster == cluster_id_to_cluster[n]
                  redirected == \E i \in 1..Len(dagman_clusters_to_path) :
                                   dagman_clusters_to_path[i].path = cluster.event_log_path
              IN  C30_GroupsOf(cluster) = IF redirected THEN 1 ELSE 0
        /\ \A i \in 1..Len(C30_Groups) :
              \A j \in 1..Len(C30_Groups[i].clusters) :
                  \E a \in 1..Len(dagman_clusters_to_path) :
                      /\ dagman_clusters_to_path[a].path
                            = C30_Groups[i].clusters[j].event_log_path
                      /\ batch_names[dagman_clusters_to_path[a].cluster_id]
                            = C30_Groups[i].value
        /\ C30_AllRedirected => totals[TOTAL] = Len(job_states(cluster_id_to_cluster))

\* a block of a run with the dag option that shows one job while the tracker
\* holds two
C30_JobsLeftOut ==
    /\ Shown
    /\ dag
    /\ totals[TOTAL] = 1
    /\ Len(job_states(cluster_id_to_cluster)) = 2

====
